---- MODULE Spec2Model ----
(***************************************************************************)
(* Invoice factoring protocol: the InvoiceNFT registry (lifecycle state    *)
(* machine), the TrancheVault allocation book-keeping and the oracle       *)
(* service (verification pass and payment pass driven by the mock data     *)
(* source).                                                                *)
(*                                                                         *)
(* A contract call is one atomic step.  A call whose require fails reverts *)
(* and leaves the contract state unchanged; the ...Error operators give    *)
(* the message of the first failing require of a call in the current       *)
(* state, so that rejections can be stated.                                *)
(* The oracle service is asynchronous JavaScript: every await is a point   *)
(* where other actors may act, so a pass is a sequence of steps.           *)
(***************************************************************************)
EXTENDS Integers, Sequences, FiniteSets, TLC

(* ------------------------------ bounds -------------------------------- *)
MaxInvoices == 2
MaxFaceValue == 2
MaxTime == 2
NumHashes == 2
MaxInvoiceIds == 2
MaxDelay == 1
MaxMaturity == 1
InvestorFunds == 3
MaxYield == 1
MaxEpochs == 2
ScenarioDeposit == 500
ScenarioYield == 100
MaxLoss == 2
MaxRevocations == 1
LargeFaceValue == 5
MaxPendingEvents == 2

(* ------------------------- program constants -------------------------- *)
BasisPoints == 10000
MaxDiscountRate == 5000
PartialPercent == 50
ShareUnit == 1000000
DefaultMinDeposit == 100000000
MaxRiskScore == 100
DefaultMaxAcceptableRiskScore == 70
YearDuration == 365
DefaultDuration == 90

(* ------------------------------ domains -------------------------------- *)
TokenIds == 1..MaxInvoices
CallIds == 0..MaxInvoices
FaceValues == 0..MaxFaceValue
Times == 0..MaxTime
Maturities == 1..MaxMaturity
Hashes == 0..NumHashes
DiscountRates == {0, 500, MaxDiscountRate, MaxDiscountRate + 1}
Amounts == 0..MaxFaceValue
ZeroAddress == "0x0"
Debtors == {ZeroAddress, "debtor"}
Accounts == {"deployer", "operator", "outsider"}
Outsider == "outsider"
Vaults == {"senior", "junior"}
Investors == {"alice", "bob"}

VARIABLES
    now,
    invoices,
    tokenOwner,
    usedInvoiceHashes,
    nextTokenId,
    totalInvoicesFunded,
    totalValueFunded,
    totalValuePaid,
    totalDefaulted,
    invoiceIds,
    containsInvoice,
    allocations,
    totalInvoiceValue,
    totalInvoiceDiscountedValue,
    invoiceVerifications,
    paymentStatuses,
    vpass,
    ppass,
    isRunning,
    usdc,
    totalSupply,
    balanceOf,
    allowance,
    minDeposit,
    depositCap,
    depositsEnabled,
    withdrawalsEnabled,
    totalYieldDistributed,
    cumulativeYield,
    lastDistributionTime,
    epochCounter,
    totalDefaultLoss,
    kycData,
    kycRequired,
    maxAcceptableRiskScore,
    totalVerifiedUsers,
    totalRevokedUsers,
    index,
    pendingEvents

registryVars == <<invoices, tokenOwner, usedInvoiceHashes, nextTokenId,
                  totalInvoicesFunded, totalValueFunded, totalValuePaid,
                  totalDefaulted>>

vaultVars == <<invoiceIds, containsInvoice, allocations, totalInvoiceValue,
               totalInvoiceDiscountedValue>>

monitorVars == <<invoiceVerifications, paymentStatuses, vpass, ppass, isRunning>>

\* The ERC-4626 side of a vault: the asset token's balances (usdc), the
\* share token (totalSupply, balanceOf, allowance) and the vault parameters.
fundVars == <<usdc, totalSupply, balanceOf, allowance, minDeposit, depositCap,
              depositsEnabled, withdrawalsEnabled, totalYieldDistributed,
              cumulativeYield, lastDistributionTime, epochCounter, totalDefaultLoss>>

kycVars == <<kycData, kycRequired, maxAcceptableRiskScore, totalVerifiedUsers,
             totalRevokedUsers>>

\* The indexer: the status column of its invoice table by tokenId, and the
\* registry events delivered to its listeners and not yet handled.
indexerVars == <<index, pendingEvents>>

vars == <<now, registryVars, vaultVars, monitorVars, fundVars, kycVars, indexerVars>>

(* ----------------------------- InvoiceNFT ------------------------------ *)
InvoiceStatus == {"PENDING", "VERIFIED", "FUNDED", "PAID", "DEFAULTED", "PARTIAL_PAID"}

\* The value a mapping(uint256 => Invoice) holds for a key never written.
EmptyInvoice ==
    [tokenId |-> 0, faceValue |-> 0, discountedValue |-> 0, maturityDate |-> 0,
     debtor |-> ZeroAddress, invoiceHash |-> 0, status |-> "PENDING",
     paidAmount |-> 0, issuedAt |-> 0, issuer |-> ZeroAddress, discountRate |-> 0]

\* Role grants: at deployment the deployer becomes admin, issuer and oracle
\* and the two vault contracts get VAULT_ROLE; the operator is an account the
\* admin granted VAULT_ROLE afterwards (the vault code itself never calls
\* markAsFunded).
hasRole(role, account) ==
    CASE role = "ISSUER_ROLE" -> account = "deployer"
      [] role = "ORACLE_ROLE" -> account = "deployer"
      [] role = "VAULT_ROLE" -> account \in Vaults \cup {"operator"}
      [] OTHER -> FALSE

_ownerOf(tokenId) ==
    IF tokenId \in TokenIds THEN tokenOwner[tokenId] ELSE ZeroAddress

discountedValueOf(_faceValue, _discountRate) ==
    (_faceValue * (BasisPoints - _discountRate)) \div BasisPoints

mintInvoiceError_NoHashCheck(caller, _faceValue, _maturityDate, _debtor, _invoiceHash, _discountRate) ==
    IF ~hasRole("ISSUER_ROLE", caller) THEN "AccessControlUnauthorizedAccount"
    ELSE IF ~(_maturityDate > now) THEN "Maturity must be in future"
    ELSE IF ~(_faceValue > 0) THEN "Face value must be positive"
    ELSE IF _debtor = ZeroAddress THEN "Invalid debtor address"
    ELSE IF _invoiceHash = 0 THEN "Invalid invoice hash"
    ELSE IF ~(_discountRate > 0 /\ _discountRate <= MaxDiscountRate) THEN "Discount rate must be 0-50%"
    ELSE "none"

\* The require chain of mintInvoice: the message of the first failing
\* require, "none" when the call goes through.
mintInvoiceError(caller, _faceValue, _maturityDate, _debtor, _invoiceHash, _discountRate) ==
    IF ~hasRole("ISSUER_ROLE", caller) THEN "AccessControlUnauthorizedAccount"
    ELSE IF ~(_maturityDate > now) THEN "Maturity must be in future"
    ELSE IF ~(_faceValue > 0) THEN "Face value must be positive"
    ELSE IF _debtor = ZeroAddress THEN "Invalid debtor address"
    ELSE IF _invoiceHash = 0 THEN "Invalid invoice hash"
    ELSE IF _invoiceHash \in usedInvoiceHashes THEN "Invoice already exists"
    ELSE IF ~(_discountRate > 0 /\ _discountRate <= MaxDiscountRate) THEN "Discount rate must be 0-50%"
    ELSE "none"

verifyInvoiceError(caller, _tokenId) ==
    IF ~hasRole("ORACLE_ROLE", caller) THEN "AccessControlUnauthorizedAccount"
    ELSE IF _ownerOf(_tokenId) = ZeroAddress THEN "Invoice does not exist"
    ELSE IF invoices[_tokenId].status # "PENDING" THEN "Invoice not in PENDING status"
    ELSE IF ~(now < invoices[_tokenId].maturityDate) THEN "Invoice already matured"
    ELSE "none"

markAsFundedError_NoStatusCheck(caller, _tokenId) ==
    IF ~hasRole("VAULT_ROLE", caller) THEN "AccessControlUnauthorizedAccount"
    ELSE IF _ownerOf(_tokenId) = ZeroAddress THEN "Invoice does not exist"
    ELSE "none"

markAsFundedError(caller, _tokenId) ==
    IF ~hasRole("VAULT_ROLE", caller) THEN "AccessControlUnauthorizedAccount"
    ELSE IF _ownerOf(_tokenId) = ZeroAddress THEN "Invoice does not exist"
    ELSE IF invoices[_tokenId].status # "VERIFIED" THEN "Invoice not verified"
    ELSE "none"

recordPaymentError_NoCap(caller, _tokenId, _amount) ==
    IF ~hasRole("ORACLE_ROLE", caller) THEN "AccessControlUnauthorizedAccount"
    ELSE IF _ownerOf(_tokenId) = ZeroAddress THEN "Invoice does not exist"
    ELSE IF ~(_amount > 0) THEN "Payment amount must be positive"
    ELSE IF invoices[_tokenId].status \notin {"FUNDED", "PARTIAL_PAID"}
         THEN "Invoice not in valid state for payment"
    ELSE "none"

recordPaymentError_NoStatusCheck(caller, _tokenId, _amount) ==
    IF ~hasRole("ORACLE_ROLE", caller) THEN "AccessControlUnauthorizedAccount"
    ELSE IF _ownerOf(_tokenId) = ZeroAddress THEN "Invoice does not exist"
    ELSE IF ~(_amount > 0) THEN "Payment amount must be positive"
    ELSE IF ~(invoices[_tokenId].paidAmount + _amount <= invoices[_tokenId].faceValue)
         THEN "Payment exceeds face value"
    ELSE "none"

recordPaymentError(caller, _tokenId, _amount) ==
    IF ~hasRole("ORACLE_ROLE", caller) THEN "AccessControlUnauthorizedAccount"
    ELSE IF _ownerOf(_tokenId) = ZeroAddress THEN "Invoice does not exist"
    ELSE IF ~(_amount > 0) THEN "Payment amount must be positive"
    ELSE IF invoices[_tokenId].status \notin {"FUNDED", "PARTIAL_PAID"}
         THEN "Invoice not in valid state for payment"
    ELSE IF ~(invoices[_tokenId].paidAmount + _amount <= invoices[_tokenId].faceValue)
         THEN "Payment exceeds face value"
    ELSE "none"

markAsDefaultedError_NoExistenceCheck(caller, _tokenId) ==
    LET invoice == IF _tokenId \in TokenIds THEN invoices[_tokenId] ELSE EmptyInvoice
    IN IF ~hasRole("ORACLE_ROLE", caller) THEN "AccessControlUnauthorizedAccount"
       ELSE IF ~(now > invoice.maturityDate) THEN "Invoice not yet matured"
       ELSE IF invoice.status = "PAID" THEN "Invoice already paid"
       ELSE IF invoice.status = "DEFAULTED" THEN "Already marked as defaulted"
       ELSE "none"

markAsDefaultedError_NoPaidCheck(caller, _tokenId) ==
    IF ~hasRole("ORACLE_ROLE", caller) THEN "AccessControlUnauthorizedAccount"
    ELSE IF _ownerOf(_tokenId) = ZeroAddress THEN "Invoice does not exist"
    ELSE IF ~(now > invoices[_tokenId].maturityDate) THEN "Invoice not yet matured"
    ELSE IF invoices[_tokenId].status = "DEFAULTED" THEN "Already marked as defaulted"
    ELSE "none"

markAsDefaultedError_NoMaturityCheck(caller, _tokenId) ==
    IF ~hasRole("ORACLE_ROLE", caller) THEN "AccessControlUnauthorizedAccount"
    ELSE IF _ownerOf(_tokenId) = ZeroAddress THEN "Invoice does not exist"
    ELSE IF invoices[_tokenId].status = "PAID" THEN "Invoice already paid"
    ELSE IF invoices[_tokenId].status = "DEFAULTED" THEN "Already marked as defaulted"
    ELSE "none"

markAsDefaultedError(caller, _tokenId) ==
    IF ~hasRole("ORACLE_ROLE", caller) THEN "AccessControlUnauthorizedAccount"
    ELSE IF _ownerOf(_tokenId) = ZeroAddress THEN "Invoice does not exist"
    ELSE IF ~(now > invoices[_tokenId].maturityDate) THEN "Invoice not yet matured"
    ELSE IF invoices[_tokenId].status = "PAID" THEN "Invoice already paid"
    ELSE IF invoices[_tokenId].status = "DEFAULTED" THEN "Already marked as defaulted"
    ELSE "none"

\* State effects of the four lifecycle calls once their requires passed.
verifyInvoiceEffect(_tokenId) ==
    /\ invoices' = [invoices EXCEPT ![_tokenId].status = "VERIFIED"]
    /\ UNCHANGED <<tokenOwner, usedInvoiceHashes, nextTokenId, totalInvoicesFunded,
                   totalValueFunded, totalValuePaid, totalDefaulted>>

markAsFundedEffect(_tokenId) ==
    /\ invoices' = [invoices EXCEPT ![_tokenId].status = "FUNDED"]
    /\ totalInvoicesFunded' = totalInvoicesFunded + 1
    /\ totalValueFunded' = totalValueFunded + invoices[_tokenId].faceValue
    /\ UNCHANGED <<tokenOwner, usedInvoiceHashes, nextTokenId, totalValuePaid, totalDefaulted>>

newStatusAfterPayment_NeverPaid(paidAmount, faceValue) ==
    IF paidAmount > faceValue THEN "PAID" ELSE "PARTIAL_PAID"

newStatusAfterPayment(paidAmount, faceValue) ==
    IF paidAmount >= faceValue THEN "PAID" ELSE "PARTIAL_PAID"

recordPaymentEffect(_tokenId, _amount) ==
    /\ invoices' = [invoices EXCEPT
            ![_tokenId].paidAmount = @ + _amount,
            ![_tokenId].status = newStatusAfterPayment(
                    invoices[_tokenId].paidAmount + _amount, invoices[_tokenId].faceValue)]
    /\ totalValuePaid' = totalValuePaid + _amount
    /\ UNCHANGED <<tokenOwner, usedInvoiceHashes, nextTokenId, totalInvoicesFunded,
                   totalValueFunded, totalDefaulted>>

markAsDefaultedEffect(_tokenId) ==
    /\ invoices' = [invoices EXCEPT ![_tokenId].status = "DEFAULTED"]
    /\ totalDefaulted' = totalDefaulted
            + (invoices[_tokenId].faceValue - invoices[_tokenId].paidAmount)
    /\ UNCHANGED <<tokenOwner, usedInvoiceHashes, nextTokenId, totalInvoicesFunded,
                   totalValueFunded, totalValuePaid>>

(* The calls as transactions: a revert changes nothing in the registry.    *)
mintInvoiceTx_ConsumesId(caller, _faceValue, _maturityDate, _debtor, _invoiceHash, _discountRate) ==
    LET err == mintInvoiceError(caller, _faceValue, _maturityDate, _debtor,
                                _invoiceHash, _discountRate)
        tokenId == nextTokenId
    IN /\ nextTokenId' = IF nextTokenId <= MaxInvoices THEN nextTokenId + 1 ELSE nextTokenId
       /\ IF err = "none"
          THEN /\ invoices' = [invoices EXCEPT ![tokenId] =
                      [tokenId |-> tokenId,
                       faceValue |-> _faceValue,
                       discountedValue |-> discountedValueOf(_faceValue, _discountRate),
                       maturityDate |-> _maturityDate,
                       debtor |-> _debtor,
                       invoiceHash |-> _invoiceHash,
                       status |-> "PENDING",
                       paidAmount |-> 0,
                       issuedAt |-> now,
                       issuer |-> caller,
                       discountRate |-> _discountRate]]
               /\ usedInvoiceHashes' = usedInvoiceHashes \cup {_invoiceHash}
               /\ tokenOwner' = [tokenOwner EXCEPT ![tokenId] = caller]
          ELSE UNCHANGED <<invoices, usedInvoiceHashes, tokenOwner>>
       /\ UNCHANGED <<totalInvoicesFunded, totalValueFunded, totalValuePaid, totalDefaulted>>

mintInvoiceTx(caller, _faceValue, _maturityDate, _debtor, _invoiceHash, _discountRate) ==
    LET err == mintInvoiceError(caller, _faceValue, _maturityDate, _debtor,
                                _invoiceHash, _discountRate)
        tokenId == nextTokenId
    IN IF err = "none"
          THEN /\ nextTokenId' = nextTokenId + 1
               /\ invoices' = [invoices EXCEPT ![tokenId] =
                      [tokenId |-> tokenId,
                       faceValue |-> _faceValue,
                       discountedValue |-> discountedValueOf(_faceValue, _discountRate),
                       maturityDate |-> _maturityDate,
                       debtor |-> _debtor,
                       invoiceHash |-> _invoiceHash,
                       status |-> "PENDING",
                       paidAmount |-> 0,
                       issuedAt |-> now,
                       issuer |-> caller,
                       discountRate |-> _discountRate]]
               /\ usedInvoiceHashes' = usedInvoiceHashes \cup {_invoiceHash}
               /\ tokenOwner' = [tokenOwner EXCEPT ![tokenId] = caller]
               /\ UNCHANGED <<totalInvoicesFunded, totalValueFunded, totalValuePaid,
                              totalDefaulted>>
          ELSE UNCHANGED registryVars

verifyInvoiceTx(caller, _tokenId) ==
    LET err == verifyInvoiceError(caller, _tokenId)
    IN IF err = "none" THEN verifyInvoiceEffect(_tokenId) ELSE UNCHANGED registryVars

markAsFundedTx(caller, _tokenId) ==
    LET err == markAsFundedError(caller, _tokenId)
    IN IF err = "none" THEN markAsFundedEffect(_tokenId) ELSE UNCHANGED registryVars

recordPaymentTx(caller, _tokenId, _amount) ==
    LET err == recordPaymentError(caller, _tokenId, _amount)
    IN IF err = "none" THEN recordPaymentEffect(_tokenId, _amount)
                          ELSE UNCHANGED registryVars

markAsDefaultedTx(caller, _tokenId) ==
    LET err == markAsDefaultedError(caller, _tokenId)
    IN IF err = "none" THEN markAsDefaultedEffect(_tokenId) ELSE UNCHANGED registryVars

(* Calls made directly by an account.                                      *)
mintInvoice(caller, _faceValue, _maturityDate, _debtor, _invoiceHash, _discountRate) ==
    /\ \/ nextTokenId <= MaxInvoices
       \/ mintInvoiceError(caller, _faceValue, _maturityDate, _debtor,
                           _invoiceHash, _discountRate) # "none"
    /\ mintInvoiceTx(caller, _faceValue, _maturityDate, _debtor, _invoiceHash, _discountRate)
    /\ UNCHANGED <<now, indexerVars, vaultVars, monitorVars, fundVars, kycVars>>

verifyInvoice(caller, _tokenId) ==
    /\ verifyInvoiceTx(caller, _tokenId)
    /\ UNCHANGED <<now, indexerVars, vaultVars, monitorVars, fundVars, kycVars>>

markAsFunded(caller, _tokenId) ==
    /\ markAsFundedTx(caller, _tokenId)
    /\ UNCHANGED <<now, indexerVars, vaultVars, monitorVars, fundVars, kycVars>>

recordPayment(caller, _tokenId, _amount) ==
    /\ recordPaymentTx(caller, _tokenId, _amount)
    /\ UNCHANGED <<now, indexerVars, vaultVars, monitorVars, fundVars, kycVars>>

markAsDefaulted(caller, _tokenId) ==
    /\ markAsDefaultedTx(caller, _tokenId)
    /\ UNCHANGED <<now, indexerVars, vaultVars, monitorVars, fundVars, kycVars>>

getStatistics ==
    [totalFunded |-> totalInvoicesFunded, valueFunded |-> totalValueFunded,
     valuePaid |-> totalValuePaid, valueDefaulted |-> totalDefaulted,
     totalSupply |-> nextTokenId - 1]

\* block.timestamp and the service's Date.now(): one clock that only advances.
Tick ==
    /\ now < MaxTime
    /\ now' = now + 1
    /\ UNCHANGED <<registryVars, vaultVars, monitorVars, fundVars, kycVars, indexerVars>>

(* ----------------------------- TrancheVault ---------------------------- *)
\* The value mapping(uint256 => InvoiceAllocation) holds for a key never written.
EmptyAllocation == [invoiceId |-> 0, faceValue |-> 0, addedAt |-> 0, isActive |-> FALSE]

\* Ownable: both vaults are deployed, and therefore owned, by the deployer.
vaultOwner(v) == "deployer"

\* InvoiceNFT.getInvoice as seen by a caller: reverts for an unknown id.
getInvoiceError(_tokenId) ==
    IF _ownerOf(_tokenId) = ZeroAddress THEN "Invoice does not exist" ELSE "none"

addInvoiceError(v, caller, _invoiceId) ==
    IF caller # vaultOwner(v) THEN "OwnableUnauthorizedAccount"
    ELSE IF _invoiceId \in containsInvoice[v] THEN "Invoice already in vault"
    ELSE IF getInvoiceError(_invoiceId) # "none" THEN getInvoiceError(_invoiceId)
    ELSE IF invoices[_invoiceId].status # "VERIFIED" THEN "Invoice not verified"
    ELSE IF ~(invoices[_invoiceId].maturityDate > now) THEN "Invoice already matured"
    ELSE "none"

removeInvoiceError(v, caller, _invoiceId) ==
    IF caller # vaultOwner(v) THEN "OwnableUnauthorizedAccount"
    ELSE IF _invoiceId \notin containsInvoice[v] THEN "Invoice not in vault"
    ELSE IF getInvoiceError(_invoiceId) # "none" THEN getInvoiceError(_invoiceId)
    ELSE "none"

\* addInvoice writes the vault's own books only; it makes no call that
\* changes the registry.
addInvoice(v, caller, _invoiceId) ==
    LET err == addInvoiceError(v, caller, _invoiceId)
        invoice == invoices[_invoiceId]
    IN /\ err = "none" => Len(invoiceIds[v]) < MaxInvoiceIds
       /\ IF err = "none"
          THEN /\ invoiceIds' = [invoiceIds EXCEPT ![v] = Append(@, _invoiceId)]
               /\ containsInvoice' = [containsInvoice EXCEPT ![v] = @ \cup {_invoiceId}]
               /\ totalInvoiceValue' = [totalInvoiceValue EXCEPT ![v] = @ + invoice.faceValue]
               /\ totalInvoiceDiscountedValue' =
                      [totalInvoiceDiscountedValue EXCEPT ![v] = @ + invoice.discountedValue]
               /\ allocations' = [allocations EXCEPT ![v][_invoiceId] =
                      [invoiceId |-> _invoiceId, faceValue |-> invoice.faceValue,
                       addedAt |-> now, isActive |-> TRUE]]
          ELSE UNCHANGED vaultVars
       /\ UNCHANGED <<now, indexerVars, registryVars, monitorVars, fundVars, kycVars>>

removeInvoice_KeepsTotals(v, caller, _invoiceId) ==
    LET err == removeInvoiceError(v, caller, _invoiceId)
    IN /\ IF err = "none"
          THEN /\ containsInvoice' = [containsInvoice EXCEPT ![v] = @ \ {_invoiceId}]
               /\ allocations' = [allocations EXCEPT ![v][_invoiceId].isActive = FALSE]
               /\ UNCHANGED <<invoiceIds, totalInvoiceValue, totalInvoiceDiscountedValue>>
          ELSE UNCHANGED vaultVars
       /\ UNCHANGED <<now, indexerVars, registryVars, monitorVars, fundVars, kycVars>>

removeInvoice(v, caller, _invoiceId) ==
    LET err == removeInvoiceError(v, caller, _invoiceId)
        invoice == invoices[_invoiceId]
    IN /\ IF err = "none"
          THEN /\ containsInvoice' = [containsInvoice EXCEPT ![v] = @ \ {_invoiceId}]
               /\ allocations' = [allocations EXCEPT ![v][_invoiceId].isActive = FALSE]
               /\ totalInvoiceValue' = [totalInvoiceValue EXCEPT ![v] =
                      IF @ >= invoice.faceValue THEN @ - invoice.faceValue ELSE @]
               /\ totalInvoiceDiscountedValue' = [totalInvoiceDiscountedValue EXCEPT ![v] =
                      IF @ >= invoice.discountedValue THEN @ - invoice.discountedValue ELSE @]
               /\ UNCHANGED invoiceIds
          ELSE UNCHANGED vaultVars
       /\ UNCHANGED <<now, indexerVars, registryVars, monitorVars, fundVars, kycVars>>

\* getExpectedAPY. The clock of the model counts days, so that `365 days`
\* is YearDuration and `90 days` is DefaultDuration.
\* One iteration of the for loop over invoiceIds, from index i on; acc holds
\* totalExpectedYield, totalDuration and activeInvoices.
RECURSIVE apyLoop(_, _, _)
apyLoop(v, i, acc) ==
    IF i > Len(invoiceIds[v]) THEN acc
    ELSE LET id == invoiceIds[v][i]
             invoice == invoices[id]
             yieldAmount == invoice.faceValue - invoice.discountedValue
             duration == IF invoice.maturityDate > invoice.issuedAt
                         THEN invoice.maturityDate - invoice.issuedAt
                         ELSE DefaultDuration
         IN IF ~allocations[v][id].isActive THEN apyLoop(v, i + 1, acc)
            ELSE IF getInvoiceError(id) # "none" THEN [acc EXCEPT !.reverted = TRUE]
            ELSE IF invoice.status # "PAID" /\ invoice.status # "DEFAULTED"
                 THEN IF yieldAmount < 0 THEN [acc EXCEPT !.reverted = TRUE]
                      ELSE apyLoop(v, i + 1,
                                   [acc EXCEPT !.totalExpectedYield = @ + yieldAmount,
                                               !.totalDuration = @ + duration,
                                               !.activeInvoices = @ + 1])
            ELSE apyLoop(v, i + 1, acc)

\* A division whose divisor is zero reverts the call.
apyQuotient(numerator, denominator) ==
    IF denominator = 0 THEN [reverted |-> TRUE, apy |-> 0]
    ELSE [reverted |-> FALSE, apy |-> numerator \div denominator]

apyOf_NoEmptyGuard(v, acc) ==
    IF acc.reverted THEN [reverted |-> TRUE, apy |-> 0]
    ELSE IF acc.activeInvoices = 0
         THEN [reverted |-> TRUE, apy |-> 0]
    ELSE IF acc.totalDuration \div acc.activeInvoices = 0 THEN [reverted |-> FALSE, apy |-> 0]
    ELSE apyQuotient(acc.totalExpectedYield * YearDuration * BasisPoints,
                     totalInvoiceValue[v] * (acc.totalDuration \div acc.activeInvoices))

\* The part of getExpectedAPY after the loop.
apyOf(v, acc) ==
    IF acc.reverted THEN [reverted |-> TRUE, apy |-> 0]
    ELSE IF acc.activeInvoices = 0 \/ acc.totalDuration = 0
         THEN [reverted |-> FALSE, apy |-> 0]
    ELSE IF acc.totalDuration \div acc.activeInvoices = 0 THEN [reverted |-> FALSE, apy |-> 0]
    ELSE apyQuotient(acc.totalExpectedYield * YearDuration * BasisPoints,
                     totalInvoiceValue[v] * (acc.totalDuration \div acc.activeInvoices))

\* The outcome of the view: whether it reverts, and the value it returns.
getExpectedAPY(v) ==
    IF totalInvoiceValue[v] = 0 \/ Len(invoiceIds[v]) = 0
    THEN [reverted |-> FALSE, apy |-> 0]
    ELSE apyOf(v, apyLoop(v, 1, [reverted |-> FALSE, totalExpectedYield |-> 0,
                                 totalDuration |-> 0, activeInvoices |-> 0]))

\* getActiveInvoiceIds: the entries of invoiceIds whose allocation is
\* active, in the order of the array.
getActiveInvoiceIds(v) ==
    SelectSeq(invoiceIds[v], LAMBDA id : allocations[v][id].isActive)

(* ------------------------------- KYCGate ------------------------------- *)
\* The value mapping(address => KYCData) holds for a key never written.
EmptyKYCData == [isVerified |-> FALSE, verifiedAt |-> 0, expiresAt |-> 0, riskScore |-> 0, tier |-> 0]

\* The constructor grants KYC_PROVIDER_ROLE to the deployer.
isKycProvider(account) == account = "deployer"

isVerified_NoFlagCheck(_user) ==
    IF ~kycRequired THEN TRUE
    ELSE /\ kycData[_user].expiresAt > now
         /\ kycData[_user].riskScore <= maxAcceptableRiskScore

isVerified(_user) ==
    IF ~kycRequired THEN TRUE
    ELSE /\ kycData[_user].isVerified
         /\ kycData[_user].expiresAt > now
         /\ kycData[_user].riskScore <= maxAcceptableRiskScore

\* No country is blocked (blockCountry is never called) and the KYC id
\* passed is not empty.
verifyUserError(caller, _user, _expiresAt, _riskScore, _tier) ==
    IF ~isKycProvider(caller) THEN "AccessControlUnauthorizedAccount"
    ELSE IF _user = ZeroAddress THEN "Invalid user address"
    ELSE IF ~(_expiresAt > now) THEN "Expiry must be in future"
    ELSE IF ~(_riskScore <= MaxRiskScore) THEN "Risk score must be 0-100"
    ELSE IF ~(_riskScore <= maxAcceptableRiskScore) THEN "Risk score too high"
    ELSE IF ~(_tier >= 1 /\ _tier <= 3) THEN "Tier must be 1-3"
    ELSE "none"

verifyUser(caller, _user, _expiresAt, _riskScore, _tier) ==
    LET err == verifyUserError(caller, _user, _expiresAt, _riskScore, _tier)
    IN /\ IF err = "none"
          THEN /\ kycData' = [kycData EXCEPT ![_user] =
                      [isVerified |-> TRUE, verifiedAt |-> now, expiresAt |-> _expiresAt,
                       riskScore |-> _riskScore, tier |-> _tier]]
               /\ totalVerifiedUsers' = IF ~kycData[_user].isVerified
                                        THEN totalVerifiedUsers + 1 ELSE totalVerifiedUsers
               /\ UNCHANGED <<kycRequired, maxAcceptableRiskScore, totalRevokedUsers>>
          ELSE UNCHANGED kycVars
       /\ UNCHANGED <<now, indexerVars, registryVars, vaultVars, monitorVars, fundVars>>

revokeKYCError(caller, _user) ==
    IF ~isKycProvider(caller) THEN "AccessControlUnauthorizedAccount"
    ELSE IF _user = ZeroAddress THEN "Invalid user address"
    ELSE IF ~kycData[_user].isVerified THEN "User not verified"
    ELSE "none"

revokeKYC(caller, _user) ==
    LET err == revokeKYCError(caller, _user)
    IN /\ err = "none" => totalRevokedUsers < MaxRevocations
       /\ IF err = "none"
          THEN /\ kycData' = [kycData EXCEPT ![_user].isVerified = FALSE]
               /\ totalRevokedUsers' = totalRevokedUsers + 1
               /\ UNCHANGED <<kycRequired, maxAcceptableRiskScore, totalVerifiedUsers>>
          ELSE UNCHANGED kycVars
       /\ UNCHANGED <<now, indexerVars, registryVars, vaultVars, monitorVars, fundVars>>

updateKYCError(caller, _user, _newExpiresAt, _newRiskScore) ==
    IF ~isKycProvider(caller) THEN "AccessControlUnauthorizedAccount"
    ELSE IF _user = ZeroAddress THEN "Invalid user address"
    ELSE IF ~kycData[_user].isVerified THEN "User not verified"
    ELSE IF ~(_newExpiresAt > now) THEN "Expiry must be in future"
    ELSE IF ~(_newRiskScore <= MaxRiskScore) THEN "Risk score must be 0-100"
    ELSE IF ~(_newRiskScore <= maxAcceptableRiskScore) THEN "Risk score too high"
    ELSE "none"

updateKYC(caller, _user, _newExpiresAt, _newRiskScore) ==
    /\ IF updateKYCError(caller, _user, _newExpiresAt, _newRiskScore) = "none"
       THEN kycData' = [kycData EXCEPT ![_user].expiresAt = _newExpiresAt,
                                       ![_user].riskScore = _newRiskScore]
       ELSE UNCHANGED kycData
    /\ UNCHANGED <<kycRequired, maxAcceptableRiskScore, totalVerifiedUsers, totalRevokedUsers>>
    /\ UNCHANGED <<now, indexerVars, registryVars, vaultVars, monitorVars, fundVars>>

\* The constructor grants DEFAULT_ADMIN_ROLE to the deployer.
isKycAdmin(account) == account = "deployer"

updateRiskScoreThreshold(caller, _newThreshold) ==
    /\ maxAcceptableRiskScore' = IF isKycAdmin(caller) /\ _newThreshold <= MaxRiskScore
                                 THEN _newThreshold ELSE maxAcceptableRiskScore
    /\ UNCHANGED <<kycData, kycRequired, totalVerifiedUsers, totalRevokedUsers>>
    /\ UNCHANGED <<now, indexerVars, registryVars, vaultVars, monitorVars, fundVars>>

setKYCRequired(caller, _required) ==
    /\ kycRequired' = IF isKycAdmin(caller) THEN _required ELSE kycRequired
    /\ UNCHANGED <<kycData, maxAcceptableRiskScore, totalVerifiedUsers, totalRevokedUsers>>
    /\ UNCHANGED <<now, indexerVars, registryVars, vaultVars, monitorVars, fundVars>>

(* ------------------------ TrancheVault: ERC-4626 ----------------------- *)
shareVars == <<usdc, totalSupply, balanceOf, allowance>>

paramVars == <<minDeposit, depositCap, depositsEnabled, withdrawalsEnabled>>

yieldVars == <<totalYieldDistributed, cumulativeYield, lastDistributionTime, epochCounter>>

\* ERC4626.totalAssets: the vault's balance of the asset token.
totalAssets(v) == usdc[v]

\* Math.mulDiv(x, y, denominator, rounding)
mulDiv(x, y, denominator, rounding) ==
    IF rounding = "Ceil" THEN (x * y + denominator - 1) \div denominator
    ELSE (x * y) \div denominator

\* ERC4626._convertToShares and _convertToAssets with _decimalsOffset() = 0:
\* one virtual share and one virtual asset are added to the ratio.
_convertToShares(v, assets, rounding) ==
    mulDiv(assets, totalSupply[v] + 1, totalAssets(v) + 1, rounding)

_convertToAssets(v, shares, rounding) ==
    mulDiv(shares, totalAssets(v) + 1, totalSupply[v] + 1, rounding)

previewDeposit_RoundUp(v, assets) == _convertToShares(v, assets, "Ceil")

previewDeposit(v, assets) == _convertToShares(v, assets, "Floor")

previewMint(v, shares) == _convertToAssets(v, shares, "Ceil")

previewWithdraw(v, assets) == _convertToShares(v, assets, "Ceil")

previewRedeem_RoundUp(v, shares) == _convertToAssets(v, shares, "Ceil")

previewRedeem(v, shares) == _convertToAssets(v, shares, "Floor")

convertToAssets(v, shares) == _convertToAssets(v, shares, "Floor")

maxWithdraw(v, owner) == _convertToAssets(v, balanceOf[v][owner], "Floor")

maxRedeem(v, owner) == balanceOf[v][owner]

getSharePrice(v) ==
    IF totalSupply[v] > 0 THEN convertToAssets(v, ShareUnit) ELSE ShareUnit

\* ERC4626._deposit: pull the assets from the caller, mint the shares.
_deposit(v, caller, receiver, assets, shares) ==
    /\ usdc' = [usdc EXCEPT ![caller] = @ - assets, ![v] = @ + assets]
    /\ totalSupply' = [totalSupply EXCEPT ![v] = @ + shares]
    /\ balanceOf' = [balanceOf EXCEPT ![v][receiver] = @ + shares]
    /\ UNCHANGED allowance

\* ERC4626._withdraw: spend the caller's allowance when it is not the owner,
\* burn the owner's shares, push the assets to the receiver.
_withdraw(v, caller, receiver, owner, assets, shares) ==
    /\ allowance' = IF caller # owner
                    THEN [allowance EXCEPT ![v][owner][caller] = @ - shares]
                    ELSE allowance
    /\ totalSupply' = [totalSupply EXCEPT ![v] = @ - shares]
    /\ balanceOf' = [balanceOf EXCEPT ![v][owner] = @ - shares]
    /\ usdc' = [usdc EXCEPT ![v] = @ - assets, ![receiver] = @ + assets]

depositError_NoKycCheck(v, caller, assets, receiver) ==
    IF ~depositsEnabled[v] THEN "Deposits are currently disabled"
    ELSE IF ~(assets >= minDeposit[v]) THEN "Below minimum deposit"
    ELSE IF depositCap[v] > 0 /\ ~(totalAssets(v) + assets <= depositCap[v])
         THEN "Deposit exceeds cap"
    ELSE IF usdc[caller] < assets THEN "ERC20InsufficientBalance"
    ELSE "none"

\* The requires of deposit, then the asset token's transferFrom (every
\* investor has approved the vault for its whole balance).
depositError(v, caller, assets, receiver) ==
    IF ~depositsEnabled[v] THEN "Deposits are currently disabled"
    ELSE IF ~isVerified(receiver) THEN "Receiver not KYC verified"
    ELSE IF ~(assets >= minDeposit[v]) THEN "Below minimum deposit"
    ELSE IF depositCap[v] > 0 /\ ~(totalAssets(v) + assets <= depositCap[v])
         THEN "Deposit exceeds cap"
    ELSE IF usdc[caller] < assets THEN "ERC20InsufficientBalance"
    ELSE "none"

mintError(v, caller, shares, receiver) ==
    IF ~depositsEnabled[v] THEN "Deposits are currently disabled"
    ELSE IF ~isVerified(receiver) THEN "Receiver not KYC verified"
    ELSE IF ~(previewMint(v, shares) >= minDeposit[v]) THEN "Below minimum deposit"
    ELSE IF depositCap[v] > 0 /\ ~(totalAssets(v) + previewMint(v, shares) <= depositCap[v])
         THEN "Deposit exceeds cap"
    ELSE IF usdc[caller] < previewMint(v, shares) THEN "ERC20InsufficientBalance"
    ELSE "none"

redeemError_NoAllowanceCheck(v, caller, shares, receiver, owner) ==
    IF ~withdrawalsEnabled[v] THEN "Withdrawals are currently disabled"
    ELSE IF ~isVerified(receiver) THEN "Receiver not KYC verified"
    ELSE IF shares > maxRedeem(v, owner) THEN "ERC4626ExceededMaxRedeem"
    ELSE "none"

redeemError(v, caller, shares, receiver, owner) ==
    IF ~withdrawalsEnabled[v] THEN "Withdrawals are currently disabled"
    ELSE IF ~isVerified(receiver) THEN "Receiver not KYC verified"
    ELSE IF shares > maxRedeem(v, owner) THEN "ERC4626ExceededMaxRedeem"
    ELSE IF caller # owner /\ allowance[v][owner][caller] < shares
         THEN "ERC20InsufficientAllowance"
    ELSE "none"

withdrawError(v, caller, assets, receiver, owner) ==
    IF ~withdrawalsEnabled[v] THEN "Withdrawals are currently disabled"
    ELSE IF ~isVerified(receiver) THEN "Receiver not KYC verified"
    ELSE IF assets > maxWithdraw(v, owner) THEN "ERC4626ExceededMaxWithdraw"
    ELSE IF caller # owner /\ allowance[v][owner][caller] < previewWithdraw(v, assets)
         THEN "ERC20InsufficientAllowance"
    ELSE "none"

\* What every ERC-4626 entry point leaves alone.
fundFrame ==
    /\ UNCHANGED <<paramVars, yieldVars, totalDefaultLoss>>
    /\ UNCHANGED <<now, indexerVars, registryVars, vaultVars, monitorVars, kycVars>>

deposit(v, caller, assets, receiver) ==
    /\ IF depositError(v, caller, assets, receiver) = "none"
       THEN _deposit(v, caller, receiver, assets, previewDeposit(v, assets))
       ELSE UNCHANGED shareVars
    /\ fundFrame

mint(v, caller, shares, receiver) ==
    /\ IF mintError(v, caller, shares, receiver) = "none"
       THEN _deposit(v, caller, receiver, previewMint(v, shares), shares)
       ELSE UNCHANGED shareVars
    /\ fundFrame

redeem(v, caller, shares, receiver, owner) ==
    /\ IF redeemError(v, caller, shares, receiver, owner) = "none"
       THEN _withdraw(v, caller, receiver, owner, previewRedeem(v, shares), shares)
       ELSE UNCHANGED shareVars
    /\ fundFrame

withdraw(v, caller, assets, receiver, owner) ==
    /\ IF withdrawError(v, caller, assets, receiver, owner) = "none"
       THEN _withdraw(v, caller, receiver, owner, assets, previewWithdraw(v, assets))
       ELSE UNCHANGED shareVars
    /\ fundFrame

\* ERC20.approve of the share token.
approve(v, owner, spender, value) ==
    /\ allowance' = [allowance EXCEPT ![v][owner][spender] = value]
    /\ UNCHANGED <<usdc, totalSupply, balanceOf>>
    /\ fundFrame

\* ERC20.transfer and transferFrom of the share token, which TrancheVault
\* inherits unchanged: _spendAllowance, then _transfer and _update.
transferError(v, from, to, value) ==
    IF balanceOf[v][from] < value THEN "ERC20InsufficientBalance" ELSE "none"

transferFromError(v, spender, from, to, value) ==
    IF allowance[v][from][spender] < value THEN "ERC20InsufficientAllowance"
    ELSE transferError(v, from, to, value)

_transfer(v, from, to, value) ==
    balanceOf' = [balanceOf EXCEPT ![v] =
                     [h \in Investors |->
                         balanceOf[v][h] - (IF h = from THEN value ELSE 0)
                                         + (IF h = to THEN value ELSE 0)]]

transfer(v, caller, to, value) ==
    /\ IF transferError(v, caller, to, value) = "none"
       THEN _transfer(v, caller, to, value)
       ELSE UNCHANGED balanceOf
    /\ UNCHANGED <<usdc, totalSupply, allowance>>
    /\ fundFrame

transferFrom(v, caller, from, to, value) ==
    /\ IF transferFromError(v, caller, from, to, value) = "none"
       THEN /\ allowance' = [allowance EXCEPT ![v][from][caller] = @ - value]
            /\ _transfer(v, from, to, value)
       ELSE UNCHANGED <<balanceOf, allowance>>
    /\ UNCHANGED <<usdc, totalSupply>>
    /\ fundFrame

distributeYieldError(v, caller, _amount) ==
    IF caller # vaultOwner(v) THEN "OwnableUnauthorizedAccount"
    ELSE IF ~(_amount > 0) THEN "Yield amount must be positive"
    ELSE "none"

\* The owner pays the yield out of the initial supply of the asset token
\* it holds, which is not tracked.
distributeYield(v, caller, _amount) ==
    LET err == distributeYieldError(v, caller, _amount)
    IN /\ err = "none" => epochCounter[v] < MaxEpochs
       /\ IF err = "none"
          THEN /\ usdc' = [usdc EXCEPT ![v] = @ + _amount]
               /\ totalYieldDistributed' = [totalYieldDistributed EXCEPT ![v] = @ + _amount]
               /\ cumulativeYield' = [cumulativeYield EXCEPT ![v] = @ + _amount]
               /\ lastDistributionTime' = [lastDistributionTime EXCEPT ![v] = now]
               /\ epochCounter' = [epochCounter EXCEPT ![v] = @ + 1]
          ELSE UNCHANGED <<usdc, yieldVars>>
       /\ UNCHANGED <<totalSupply, balanceOf, allowance, paramVars, totalDefaultLoss>>
       /\ UNCHANGED <<now, indexerVars, registryVars, vaultVars, monitorVars, kycVars>>

recordLossError(v, caller, _invoiceId, _lossAmount) ==
    IF caller # vaultOwner(v) THEN "OwnableUnauthorizedAccount"
    ELSE IF _invoiceId \notin containsInvoice[v] THEN "Invoice not in vault"
    ELSE IF ~(_lossAmount > 0) THEN "Loss amount must be positive"
    ELSE "none"

recordLoss_WritesOffAssets(v, caller, _invoiceId, _lossAmount) ==
    LET err == recordLossError(v, caller, _invoiceId, _lossAmount)
    IN /\ err = "none" => totalDefaultLoss[v] + _lossAmount <= MaxLoss
       /\ IF err = "none"
          THEN /\ totalDefaultLoss' = [totalDefaultLoss EXCEPT ![v] = @ + _lossAmount]
               /\ usdc' = [usdc EXCEPT ![v] = IF @ >= _lossAmount THEN @ - _lossAmount ELSE 0]
          ELSE UNCHANGED <<totalDefaultLoss, usdc>>
       /\ UNCHANGED <<totalSupply, balanceOf, allowance, paramVars, yieldVars>>
       /\ UNCHANGED <<now, indexerVars, registryVars, vaultVars, monitorVars, kycVars>>

recordLoss(v, caller, _invoiceId, _lossAmount) ==
    LET err == recordLossError(v, caller, _invoiceId, _lossAmount)
    IN /\ err = "none" => totalDefaultLoss[v] + _lossAmount <= MaxLoss
       /\ totalDefaultLoss' = IF err = "none"
                              THEN [totalDefaultLoss EXCEPT ![v] = @ + _lossAmount]
                              ELSE totalDefaultLoss
       /\ UNCHANGED <<shareVars, paramVars, yieldVars>>
       /\ UNCHANGED <<now, indexerVars, registryVars, vaultVars, monitorVars, kycVars>>

updateVaultParameters(v, caller, _minDeposit, _depositCap, _depositsEnabled, _withdrawalsEnabled) ==
    /\ IF caller = vaultOwner(v)
       THEN /\ minDeposit' = [minDeposit EXCEPT ![v] = _minDeposit]
            /\ depositCap' = [depositCap EXCEPT ![v] = _depositCap]
            /\ depositsEnabled' = [depositsEnabled EXCEPT ![v] = _depositsEnabled]
            /\ withdrawalsEnabled' = [withdrawalsEnabled EXCEPT ![v] = _withdrawalsEnabled]
       ELSE UNCHANGED paramVars
    /\ UNCHANGED <<shareVars, yieldVars, totalDefaultLoss>>
    /\ UNCHANGED <<now, indexerVars, registryVars, vaultVars, monitorVars, kycVars>>

(* --------------------------- MockDataSource ---------------------------- *)
NoPayment == [scheduled |-> FALSE, scheduledTime |-> 0, amount |-> 0, isPartial |-> FALSE]

\* amount = isPartial ? (faceValue * 50n) / 100n : faceValue
scheduledAmount(faceValue, isPartial) ==
    IF isPartial THEN (faceValue * PartialPercent) \div 100 ELSE faceValue

\* schedulePayment: Math.random() decides whether the debtor pays, after
\* which delay and whether in part; the outcomes are the entries the map
\* may hold afterwards.
schedulePaymentOutcomes(invoice) ==
    {NoPayment} \cup
    {[scheduled |-> TRUE, scheduledTime |-> now + delay,
      amount |-> scheduledAmount(invoice.faceValue, isPartial), isPartial |-> isPartial] :
        delay \in 1..MaxDelay, isPartial \in BOOLEAN}

checkPaymentStatus(_tokenId) ==
    IF paymentStatuses[_tokenId].scheduled /\ now >= paymentStatuses[_tokenId].scheduledTime
    THEN [hasPaid |-> TRUE, amount |-> paymentStatuses[_tokenId].amount]
    ELSE [hasPaid |-> FALSE, amount |-> 0]

(* ---------------------------- OracleService ---------------------------- *)
\* The wallet the service signs with (ORACLE_PRIVATE_KEY).
OracleWallet == "deployer"

IdlePass == [pc |-> "idle", total |-> 0, tokenId |-> 0, invoice |-> EmptyInvoice,
             isValid |-> FALSE, paymentInfo |-> [hasPaid |-> FALSE, amount |-> 0],
             error |-> "none"]

\* The for statement's tokenId++ and its test tokenId <= total.
nextIteration(pass) ==
    [pass EXCEPT !.tokenId = @ + 1,
                 !.pc = IF pass.tokenId + 1 <= pass.total THEN "getInvoice" ELSE "done"]

\* An exception leaves the for loop through the single try/catch that
\* encloses it: the pass is over, the message is logged.
caught(pass, message) == [pass EXCEPT !.pc = "done", !.error = message]

\* getStatistics, then the first test of the for loop.
verifyPendingInvoices_start ==
    /\ vpass.pc \in {"idle", "done"}
    /\ vpass' = [IdlePass EXCEPT !.total = nextTokenId - 1, !.tokenId = 1,
                     !.pc = IF 1 <= nextTokenId - 1 THEN "getInvoice" ELSE "done"]
    /\ UNCHANGED <<now, indexerVars, registryVars, vaultVars, invoiceVerifications, paymentStatuses, ppass, isRunning, fundVars, kycVars>>

verifyPendingInvoices_getInvoice ==
    /\ vpass.pc = "getInvoice"
    /\ LET err == getInvoiceError(vpass.tokenId)
           invoice == invoices[vpass.tokenId]
       IN vpass' = IF err # "none" THEN caught(vpass, err)
                   ELSE IF invoice.status = "PENDING"
                        THEN [vpass EXCEPT !.invoice = invoice, !.pc = "verify"]
                        ELSE nextIteration([vpass EXCEPT !.invoice = invoice])
    /\ UNCHANGED <<now, indexerVars, registryVars, vaultVars, invoiceVerifications, paymentStatuses, ppass, isRunning, fundVars, kycVars>>

verifyPendingInvoices_verify_IgnoresAnswer ==
    /\ vpass.pc = "verify"
    /\ LET id == vpass.tokenId IN
       \/ /\ invoiceVerifications[id] # "unset"
          /\ vpass' = [vpass EXCEPT !.isValid = invoiceVerifications[id] = "valid",
                                    !.pc = "record"]
          /\ UNCHANGED <<invoiceVerifications, paymentStatuses>>
       \/ /\ invoiceVerifications[id] = "unset"
          /\ \/ /\ invoiceVerifications' = [invoiceVerifications EXCEPT ![id] = "invalid"]
                /\ vpass' = [vpass EXCEPT !.isValid = FALSE, !.pc = "record"]
                /\ UNCHANGED paymentStatuses
             \/ /\ invoiceVerifications' = [invoiceVerifications EXCEPT ![id] = "valid"]
                /\ \E outcome \in schedulePaymentOutcomes(vpass.invoice) :
                      paymentStatuses' = IF outcome.scheduled
                                         THEN [paymentStatuses EXCEPT ![id] = outcome]
                                         ELSE paymentStatuses
                /\ vpass' = [vpass EXCEPT !.isValid = TRUE, !.pc = "record"]
    /\ UNCHANGED <<now, indexerVars, registryVars, vaultVars, ppass, isRunning, fundVars, kycVars>>

\* dataSource.verifyInvoice: the remembered verdict, or a fresh random one
\* which, when positive, also schedules the mock payment.
verifyPendingInvoices_verify ==
    /\ vpass.pc = "verify"
    /\ LET id == vpass.tokenId IN
       \/ /\ invoiceVerifications[id] # "unset"
          /\ vpass' = IF invoiceVerifications[id] = "valid"
                      THEN [vpass EXCEPT !.isValid = TRUE, !.pc = "record"]
                      ELSE nextIteration([vpass EXCEPT !.isValid = FALSE])
          /\ UNCHANGED <<invoiceVerifications, paymentStatuses>>
       \/ /\ invoiceVerifications[id] = "unset"
          /\ \/ /\ invoiceVerifications' = [invoiceVerifications EXCEPT ![id] = "invalid"]
                /\ vpass' = nextIteration([vpass EXCEPT !.isValid = FALSE])
                /\ UNCHANGED paymentStatuses
             \/ /\ invoiceVerifications' = [invoiceVerifications EXCEPT ![id] = "valid"]
                /\ \E outcome \in schedulePaymentOutcomes(vpass.invoice) :
                      paymentStatuses' = IF outcome.scheduled
                                         THEN [paymentStatuses EXCEPT ![id] = outcome]
                                         ELSE paymentStatuses
                /\ vpass' = [vpass EXCEPT !.isValid = TRUE, !.pc = "record"]
    /\ UNCHANGED <<now, indexerVars, registryVars, vaultVars, ppass, isRunning, fundVars, kycVars>>

\* invoiceNFT.verifyInvoice(tokenId); tx.wait()
verifyPendingInvoices_record ==
    /\ vpass.pc = "record"
    /\ verifyInvoiceTx(OracleWallet, vpass.tokenId)
    /\ LET err == verifyInvoiceError(OracleWallet, vpass.tokenId)
       IN vpass' = IF err # "none" THEN caught(vpass, err) ELSE nextIteration(vpass)
    /\ UNCHANGED <<now, indexerVars, vaultVars, invoiceVerifications, paymentStatuses, ppass, isRunning, fundVars, kycVars>>

checkPaymentStatuses_start ==
    /\ ppass.pc \in {"idle", "done"}
    /\ ppass' = [IdlePass EXCEPT !.total = nextTokenId - 1, !.tokenId = 1,
                     !.pc = IF 1 <= nextTokenId - 1 THEN "getInvoice" ELSE "done"]
    /\ UNCHANGED <<now, indexerVars, registryVars, vaultVars, invoiceVerifications, paymentStatuses, vpass, isRunning, fundVars, kycVars>>

checkPaymentStatuses_getInvoice ==
    /\ ppass.pc = "getInvoice"
    /\ LET err == getInvoiceError(ppass.tokenId)
           invoice == invoices[ppass.tokenId]
       IN ppass' = IF err # "none" THEN caught(ppass, err)
                   ELSE IF invoice.status \in {"FUNDED", "PARTIAL_PAID"}
                        THEN [ppass EXCEPT !.invoice = invoice, !.pc = "check"]
                        ELSE nextIteration([ppass EXCEPT !.invoice = invoice])
    /\ UNCHANGED <<now, indexerVars, registryVars, vaultVars, invoiceVerifications, paymentStatuses, vpass, isRunning, fundVars, kycVars>>

checkPaymentStatuses_check ==
    /\ ppass.pc = "check"
    /\ LET paymentInfo == checkPaymentStatus(ppass.tokenId)
       IN ppass' = [ppass EXCEPT !.paymentInfo = paymentInfo,
                        !.pc = IF paymentInfo.hasPaid /\ paymentInfo.amount > 0
                               THEN "record" ELSE "default"]
    /\ UNCHANGED <<now, indexerVars, registryVars, vaultVars, invoiceVerifications, paymentStatuses, vpass, isRunning, fundVars, kycVars>>

\* invoiceNFT.recordPayment(tokenId, paymentInfo.amount); tx.wait()
checkPaymentStatuses_record ==
    /\ ppass.pc = "record"
    /\ recordPaymentTx(OracleWallet, ppass.tokenId, ppass.paymentInfo.amount)
    /\ LET err == recordPaymentError(OracleWallet, ppass.tokenId, ppass.paymentInfo.amount)
       IN ppass' = IF err # "none" THEN caught(ppass, err)
                   ELSE [ppass EXCEPT !.pc = "default"]
    /\ UNCHANGED <<now, indexerVars, vaultVars, invoiceVerifications, paymentStatuses, vpass, isRunning, fundVars, kycVars>>

\* The default test reads maturityDate, paidAmount and faceValue from the
\* invoice fetched at the top of the iteration.
checkPaymentStatuses_default ==
    /\ ppass.pc = "default"
    /\ IF now > ppass.invoice.maturityDate
          /\ ppass.invoice.paidAmount < ppass.invoice.faceValue
       THEN /\ markAsDefaultedTx(OracleWallet, ppass.tokenId)
            /\ LET err == markAsDefaultedError(OracleWallet, ppass.tokenId)
               IN ppass' = IF err # "none" THEN caught(ppass, err) ELSE nextIteration(ppass)
       ELSE /\ ppass' = nextIteration(ppass)
            /\ UNCHANGED registryVars
    /\ UNCHANGED <<now, indexerVars, vaultVars, invoiceVerifications, paymentStatuses, vpass, isRunning, fundVars, kycVars>>

\* start(): a second call while running only logs a warning; otherwise the
\* flag is set and the two periodic tasks are installed with setInterval.
start ==
    /\ isRunning' = TRUE
    /\ UNCHANGED <<now, indexerVars, registryVars, vaultVars, invoiceVerifications, paymentStatuses,
                   vpass, ppass, fundVars, kycVars>>

\* stop() clears the flag; no interval is cleared and no pass reads the flag.
stop ==
    /\ isRunning' = FALSE
    /\ UNCHANGED <<now, indexerVars, registryVars, vaultVars, invoiceVerifications, paymentStatuses,
                   vpass, ppass, fundVars, kycVars>>

(* ------------------------ indexer: EventListener ----------------------- *)
\* The number of arguments each registry event carries.
EventArity(name) ==
    CASE name = "InvoiceMinted" -> 6
      [] name = "InvoiceVerified" -> 3
      [] name = "InvoiceFunded" -> 3
      [] name = "InvoiceRepaid" -> 4
      [] name = "InvoiceDefaulted" -> 3

\* The position of the parameter called `event` in the listener registered
\* for each event.
eventParameter(name) ==
    CASE name = "InvoiceMinted" -> 5
      [] name = "InvoiceVerified" -> 2
      [] name = "InvoiceFunded" -> 4
      [] name = "InvoiceRepaid" -> 4
      [] name = "InvoiceDefaulted" -> 2

\* contract.on calls a listener with the event's arguments followed by the
\* event payload. `await event.getBlock()` works when `event` is bound to
\* the payload and throws a TypeError when it is bound to an argument.
getBlockError(name) ==
    IF eventParameter(name) = EventArity(name) + 1 THEN "none" ELSE "TypeError"

\* The enum InvoiceStatus in declaration order, as its values reach the
\* listener (0, 1, ...).
InvoiceStatusOrder == <<"PENDING", "VERIFIED", "FUNDED", "PAID", "DEFAULTED", "PARTIAL_PAID">>

\* statuses[Number(status)] || 'UNKNOWN'
getStatusString(status) ==
    LET statuses == <<"PENDING", "VERIFIED", "FUNDED", "PAID", "DEFAULTED">>
        number == (CHOOSE i \in 1..Len(InvoiceStatusOrder) : InvoiceStatusOrder[i] = status) - 1
    IN IF number + 1 <= Len(statuses) THEN statuses[number + 1] ELSE "UNKNOWN"

\* prisma.invoice.update: throws when there is no row for the tokenId, which
\* the listener catches and logs.
invoiceUpdate(tokenId, status) ==
    IF index[tokenId] = "absent" THEN index ELSE [index EXCEPT ![tokenId] = status]

\* prisma.invoice.upsert with update: {}: creates the row when there is none.
invoiceUpsert(tokenId, status) ==
    IF index[tokenId] = "absent" THEN [index EXCEPT ![tokenId] = status] ELSE index

\* A registry transaction while the listeners are attached: the event it
\* emits, if it goes through, is delivered to the listener.
emits(name, tokenId, err) ==
    /\ Len(pendingEvents) < MaxPendingEvents
    /\ pendingEvents' = IF err = "none"
                        THEN Append(pendingEvents, [name |-> name, tokenId |-> tokenId])
                        ELSE pendingEvents
    /\ UNCHANGED <<now, index, vaultVars, monitorVars, fundVars, kycVars>>

emitInvoiceMinted ==
    \E fv \in 1..MaxFaceValue, m \in Maturities :
        /\ nextTokenId <= MaxInvoices
        /\ mintInvoiceTx("deployer", fv, m, "debtor", nextTokenId, MaxDiscountRate)
        /\ emits("InvoiceMinted", nextTokenId,
                 mintInvoiceError("deployer", fv, m, "debtor", nextTokenId, MaxDiscountRate))

emitInvoiceVerified ==
    \E id \in TokenIds :
        /\ verifyInvoiceTx("deployer", id)
        /\ emits("InvoiceVerified", id, verifyInvoiceError("deployer", id))

emitInvoiceFunded ==
    \E id \in TokenIds :
        /\ markAsFundedTx("operator", id)
        /\ emits("InvoiceFunded", id, markAsFundedError("operator", id))

emitInvoiceRepaid ==
    \E id \in TokenIds, amount \in 1..MaxFaceValue :
        /\ recordPaymentTx("deployer", id, amount)
        /\ emits("InvoiceRepaid", id, recordPaymentError("deployer", id, amount))

emitInvoiceDefaulted ==
    \E id \in TokenIds :
        /\ markAsDefaultedTx("deployer", id)
        /\ emits("InvoiceDefaulted", id, markAsDefaultedError("deployer", id))

\* The listener of event `name` takes the oldest delivered event.
handles(name) ==
    /\ pendingEvents # <<>>
    /\ Head(pendingEvents).name = name
    /\ pendingEvents' = Tail(pendingEvents)
    /\ UNCHANGED <<now, registryVars, vaultVars, monitorVars, fundVars, kycVars>>

\* The five listeners of listenToInvoiceEvents; an exception anywhere in a
\* listener is caught and logged, and the table is left as it was.
onInvoiceMinted ==
    /\ handles("InvoiceMinted")
    /\ LET tokenId == Head(pendingEvents).tokenId
       IN index' = IF getBlockError("InvoiceMinted") # "none" THEN index
                   ELSE invoiceUpsert(tokenId, getStatusString(invoices[tokenId].status))

onInvoiceVerified ==
    /\ handles("InvoiceVerified")
    /\ index' = IF getBlockError("InvoiceVerified") # "none" THEN index
                ELSE invoiceUpdate(Head(pendingEvents).tokenId, "VERIFIED")

onInvoiceFunded ==
    /\ handles("InvoiceFunded")
    /\ index' = IF getBlockError("InvoiceFunded") # "none" THEN index
                ELSE invoiceUpdate(Head(pendingEvents).tokenId, "FUNDED")

onInvoiceRepaid ==
    /\ handles("InvoiceRepaid")
    /\ index' = IF getBlockError("InvoiceRepaid") # "none" THEN index
                ELSE invoiceUpdate(Head(pendingEvents).tokenId, "PAID")

\* This listener does not call event.getBlock().
onInvoiceDefaulted ==
    /\ handles("InvoiceDefaulted")
    /\ index' = invoiceUpdate(Head(pendingEvents).tokenId, "DEFAULTED")

(* --------------------------- specifications ---------------------------- *)
InitDeployed ==
    /\ now = 0
    /\ invoices = [id \in TokenIds |-> EmptyInvoice]
    /\ tokenOwner = [id \in TokenIds |-> ZeroAddress]
    /\ usedInvoiceHashes = {}
    /\ nextTokenId = 1
    /\ totalInvoicesFunded = 0
    /\ totalValueFunded = 0
    /\ totalValuePaid = 0
    /\ totalDefaulted = 0
    /\ invoiceIds = [v \in Vaults |-> <<>>]
    /\ containsInvoice = [v \in Vaults |-> {}]
    /\ allocations = [v \in Vaults |-> [id \in TokenIds |-> EmptyAllocation]]
    /\ totalInvoiceValue = [v \in Vaults |-> 0]
    /\ totalInvoiceDiscountedValue = [v \in Vaults |-> 0]
    /\ invoiceVerifications = [id \in TokenIds |-> "unset"]
    /\ paymentStatuses = [id \in TokenIds |-> NoPayment]
    /\ vpass = IdlePass
    /\ ppass = IdlePass
    /\ isRunning = TRUE   \* main() has called initialize() and start()
    /\ totalSupply = [v \in Vaults |-> 0]
    /\ balanceOf = [v \in Vaults |-> [i \in Investors |-> 0]]
    /\ allowance = [v \in Vaults |-> [o \in Investors |-> [s \in Investors |-> 0]]]
    /\ minDeposit = [v \in Vaults |-> DefaultMinDeposit]
    /\ depositCap = [v \in Vaults |-> 0]
    /\ depositsEnabled = [v \in Vaults |-> TRUE]
    /\ withdrawalsEnabled = [v \in Vaults |-> TRUE]
    /\ totalYieldDistributed = [v \in Vaults |-> 0]
    /\ cumulativeYield = [v \in Vaults |-> 0]
    /\ lastDistributionTime = [v \in Vaults |-> 0]
    /\ epochCounter = [v \in Vaults |-> 0]
    /\ totalDefaultLoss = [v \in Vaults |-> 0]
    /\ kycData = [i \in Investors |-> EmptyKYCData]
    /\ kycRequired = TRUE
    /\ maxAcceptableRiskScore = DefaultMaxAcceptableRiskScore
    /\ totalVerifiedUsers = 0
    /\ totalRevokedUsers = 0
    /\ index = [id \in TokenIds |-> "absent"]
    /\ pendingEvents = <<>>

\* The asset token's holders once the deployer has handed every investor
\* the same amount out of the initial supply.
funded(amount) == [h \in Investors \cup Vaults |-> IF h \in Investors THEN amount ELSE 0]

Init == InitDeployed /\ usdc = funded(InvestorFunds)

\* The arguments callers pass to mintInvoice: the well-formed ones and
\* those with one thing wrong (the first failing require decides the call).
MintArgs ==
    {a \in [caller : {"deployer", Outsider}, faceValue : FaceValues, maturityDate : Times,
            debtor : Debtors, invoiceHash : Hashes, discountRate : DiscountRates] :
        Cardinality({f \in 1..6 :
            CASE f = 1 -> a.caller = Outsider
              [] f = 2 -> a.faceValue = 0
              [] f = 3 -> a.maturityDate = 0
              [] f = 4 -> a.debtor = ZeroAddress
              [] f = 5 -> a.invoiceHash = 0
              [] f = 6 -> a.discountRate \notin 1..MaxDiscountRate}) <= 1}

\* The registry driven directly by its role holders and by accounts
\* without the role, with valid and invalid inputs.
Next ==
    \/ \E a \in MintArgs : mintInvoice(a.caller, a.faceValue, a.maturityDate, a.debtor,
                                       a.invoiceHash, a.discountRate)
    \/ \E caller \in {"deployer", Outsider}, id \in CallIds : verifyInvoice(caller, id)
    \/ \E caller \in {"operator", Outsider}, id \in CallIds : markAsFunded(caller, id)
    \/ \E caller \in {"deployer", Outsider}, id \in CallIds, a \in Amounts :
          recordPayment(caller, id, a)
    \/ \E caller \in {"deployer", Outsider}, id \in CallIds : markAsDefaulted(caller, id)
    \/ Tick

Spec == Init /\ [][Next]_vars

\* A well-formed submission by the issuer; the n-th invoice carries hash n.
mintValid ==
    \E fv \in 1..MaxFaceValue, m \in Maturities :
        mintInvoice("deployer", fv, m, "debtor", nextTokenId, MaxDiscountRate)

\* The two tranche vaults over one registry: the owner adds and removes
\* invoices, the oracle verifies them, a VAULT_ROLE holder may mark them funded.
NextVault ==
    \/ mintValid
    \/ \E id \in TokenIds : verifyInvoice("deployer", id)
    \/ \E id \in TokenIds : markAsFunded("operator", id)
    \/ \E v \in Vaults, caller \in {"deployer", Outsider}, id \in CallIds :
          addInvoice(v, caller, id)
    \/ \E v \in Vaults, caller \in {"deployer", Outsider}, id \in CallIds :
          removeInvoice(v, caller, id)
    \/ Tick

SpecVault == Init /\ [][NextVault]_vars

\* The registry driven by the oracle service: the service's wallet is the
\* only ORACLE_ROLE caller, a VAULT_ROLE holder marks invoices funded.
NextMonitor ==
    \/ mintValid
    \/ \E id \in TokenIds : markAsFunded("operator", id)
    \/ verifyPendingInvoices_start
    \/ verifyPendingInvoices_getInvoice
    \/ verifyPendingInvoices_verify
    \/ verifyPendingInvoices_record
    \/ checkPaymentStatuses_start
    \/ checkPaymentStatuses_getInvoice
    \/ checkPaymentStatuses_check
    \/ checkPaymentStatuses_record
    \/ checkPaymentStatuses_default
    \/ Tick

SpecMonitor == Init /\ [][NextMonitor]_vars

\* A well-formed submission that matures within the horizon of the clock or
\* beyond it.
mintMaturing ==
    \E m \in {MaxMaturity, MaxTime + 1} :
        mintInvoice("deployer", 1, m, "debtor", nextTokenId, MaxDiscountRate)

\* The verification task alone over the registry.
NextVerification ==
    \/ mintMaturing
    \/ verifyPendingInvoices_start
    \/ verifyPendingInvoices_getInvoice
    \/ verifyPendingInvoices_verify
    \/ verifyPendingInvoices_record
    \/ Tick

\* The interval timer keeps firing and every awaited call returns: each step
\* of the verification pass is taken once it stays possible.
SpecVerificationFair ==
    /\ Init /\ [][NextVerification]_vars
    /\ WF_vars(verifyPendingInvoices_start)
    /\ WF_vars(verifyPendingInvoices_getInvoice)
    /\ WF_vars(verifyPendingInvoices_verify)
    /\ WF_vars(verifyPendingInvoices_record)

\* The issuer submits well-formed instruments, the issuer and others submit
\* instruments with one thing wrong (or a hash already used), and the oracle
\* service runs its verification passes.
RejectedMintArgs ==
    {a \in MintArgs : /\ a.faceValue \in {0, 1}
                      /\ a.maturityDate \in {0, MaxMaturity}
                      /\ a.invoiceHash \in {0, 1}
                      /\ a.discountRate \in {0, MaxDiscountRate}}

NextIds ==
    \/ mintValid
    \/ \E a \in RejectedMintArgs : mintInvoice(a.caller, a.faceValue, a.maturityDate,
                                               a.debtor, a.invoiceHash, a.discountRate)
    \/ verifyPendingInvoices_start
    \/ verifyPendingInvoices_getInvoice
    \/ verifyPendingInvoices_verify
    \/ verifyPendingInvoices_record
    \/ Tick

SpecIds == Init /\ [][NextIds]_vars

\* The oracle service at work while the holder of the oracle key also calls
\* markAsDefaulted on the registry directly.
NextDeadEnd ==
    \/ NextMonitor
    \/ \E id \in TokenIds : markAsDefaulted(OracleWallet, id)

SpecDeadEnd == Init /\ [][NextDeadEnd]_vars

\* A well-formed submission whose face value is large enough for several
\* 50% payments to be recorded on it (one of the two values is odd).
mintLarge ==
    \E fv \in {LargeFaceValue, LargeFaceValue + 1}, m \in Maturities :
        mintInvoice("deployer", fv, m, "debtor", nextTokenId, MaxDiscountRate)

\* The oracle service over instruments of large face value.
NextLatePayment ==
    \/ mintLarge
    \/ \E id \in TokenIds : markAsFunded("operator", id)
    \/ verifyPendingInvoices_start
    \/ verifyPendingInvoices_getInvoice
    \/ verifyPendingInvoices_verify
    \/ verifyPendingInvoices_record
    \/ checkPaymentStatuses_start
    \/ checkPaymentStatuses_getInvoice
    \/ checkPaymentStatuses_check
    \/ checkPaymentStatuses_record
    \/ checkPaymentStatuses_default
    \/ Tick

SpecLatePayment == Init /\ [][NextLatePayment]_vars

\* The oracle service at work while its owner stops and restarts it.
NextStop ==
    \/ NextMonitor
    \/ stop
    \/ start

SpecStop == Init /\ [][NextStop]_vars

\* The oracle service over a data source whose answers may never come: the
\* service's own steps (the registry reads and transactions it awaits) are
\* taken once they stay possible, while nothing obliges verifyInvoice or
\* checkPaymentStatus of the data source to return.
SpecSourceHangs ==
    /\ Init /\ [][NextMonitor]_vars
    /\ WF_vars(verifyPendingInvoices_getInvoice)
    /\ WF_vars(verifyPendingInvoices_record)
    /\ WF_vars(checkPaymentStatuses_getInvoice)
    /\ WF_vars(checkPaymentStatuses_record)
    /\ WF_vars(checkPaymentStatuses_default)

\* The parameter sets the owner switches between: the deployed minimum is
\* far above what the investors hold, so deposits start once it is lowered.
ParamChoices ==
    {[minDeposit |-> 1, depositCap |-> 0, depositsEnabled |-> TRUE, withdrawalsEnabled |-> TRUE],
     [minDeposit |-> 2, depositCap |-> InvestorFunds + 1, depositsEnabled |-> TRUE,
      withdrawalsEnabled |-> TRUE],
     [minDeposit |-> 1, depositCap |-> 0, depositsEnabled |-> FALSE, withdrawalsEnabled |-> TRUE],
     [minDeposit |-> 1, depositCap |-> 0, depositsEnabled |-> TRUE, withdrawalsEnabled |-> FALSE]}

FarFuture == MaxTime + 1

\* The senior vault as an ERC-4626 fund: investors deposit, mint, withdraw
\* and redeem (for themselves, for the other investor, or out of the other
\* investor's shares), the owner posts yield and changes the parameters,
\* the KYC provider verifies and revokes.
NextFund ==
    \/ \E caller \in {"deployer", Outsider}, i \in Investors :
          verifyUser(caller, i, FarFuture, 0, 1)
    \/ revokeKYC("deployer", "bob")
    \/ \E caller \in {"deployer", Outsider}, c \in ParamChoices :
          updateVaultParameters("senior", caller, c.minDeposit, c.depositCap,
                                c.depositsEnabled, c.withdrawalsEnabled)
    \/ \E caller \in Investors, receiver \in Investors, assets \in 0..InvestorFunds :
          deposit("senior", caller, assets, receiver)
    \/ \E caller \in Investors, shares \in 1..InvestorFunds :
          mint("senior", caller, shares, caller)
    \/ \E caller \in Investors, owner \in Investors, shares \in 1..InvestorFunds :
          redeem("senior", caller, shares, caller, owner)
    \/ \E caller \in Investors, owner \in Investors, assets \in 1..InvestorFunds :
          withdraw("senior", caller, assets, caller, owner)
    \/ \E value \in {0, 2} : approve("senior", "alice", "bob", value)
    \/ \E caller \in {"deployer", Outsider}, amount \in 0..MaxYield :
          distributeYield("senior", caller, amount)

SpecFund == Init /\ [][NextFund]_vars

\* The senior vault's share token in circulation: the KYC provider verifies
\* investors, the owner lowers the minimum deposit, investors deposit, mint,
\* redeem and withdraw, approve each other and move shares with transfer and
\* transferFrom. Deposits and redemptions are of part of an investor's funds,
\* mints and withdrawals of all of them.
NextTransfer ==
    \/ \E i \in Investors : verifyUser("deployer", i, FarFuture, 0, 1)
    \/ updateVaultParameters("senior", "deployer", 1, 0, TRUE, TRUE)
    \/ \E caller \in Investors, receiver \in Investors, assets \in 1..(InvestorFunds - 1) :
          deposit("senior", caller, assets, receiver)
    \/ \E caller \in Investors, receiver \in Investors :
          mint("senior", caller, InvestorFunds, receiver)
    \/ \E caller \in Investors, receiver \in Investors, shares \in 1..(InvestorFunds - 1) :
          redeem("senior", caller, shares, receiver, caller)
    \/ \E caller \in Investors, receiver \in Investors :
          withdraw("senior", caller, InvestorFunds, receiver, caller)
    \/ \E owner \in Investors, spender \in Investors, value \in {0, 2} :
          approve("senior", owner, spender, value)
    \/ \E caller \in Investors, to \in Investors, value \in 1..InvestorFunds :
          transfer("senior", caller, to, value)
    \/ \E caller \in Investors, from \in Investors, to \in Investors, value \in 1..InvestorFunds :
          transferFrom("senior", caller, from, to, value)

SpecTransfer == Init /\ [][NextTransfer]_vars

\* The senior vault behind the KYC gate while the gate changes: alice stays
\* verified; bob is verified with an expiry within or beyond the clock's
\* horizon and a low or a high risk score, revoked and updated; the admin
\* moves the risk threshold and switches the requirement; time passes.
\* updateKYC extends bob's expiry beyond what verifyUser granted.
NextRevocation ==
    \/ verifyUser("deployer", "alice", FarFuture, 0, 1)
    \/ \E _expiresAt \in {MaxTime, FarFuture}, _riskScore \in {0, 50} :
          verifyUser("deployer", "bob", _expiresAt, _riskScore, 1)
    \/ revokeKYC("deployer", "bob")
    \/ \E _riskScore \in {0, 50} : updateKYC("deployer", "bob", FarFuture + 1, _riskScore)
    \/ \E caller \in {"deployer", Outsider}, _newThreshold \in {30, DefaultMaxAcceptableRiskScore} :
          updateRiskScoreThreshold(caller, _newThreshold)
    \/ \E caller \in {"deployer", Outsider}, _required \in BOOLEAN :
          setKYCRequired(caller, _required)
    \/ updateVaultParameters("senior", "deployer", 1, 0, TRUE, TRUE)
    \/ \E caller \in Investors, receiver \in Investors :
          deposit("senior", caller, 1, receiver)
    \/ \E caller \in Investors, receiver \in Investors :
          mint("senior", caller, 2, receiver)
    \/ \E caller \in Investors, receiver \in Investors :
          redeem("senior", caller, 1, receiver, caller)
    \/ \E caller \in Investors, receiver \in Investors :
          withdraw("senior", caller, 2, receiver, caller)
    \/ Tick

SpecRevocation == Init /\ [][NextRevocation]_vars

\* The registry with the indexer's listeners attached: the issuer, the
\* oracle and the operator drive the lifecycle, every event is delivered,
\* and the listeners handle the delivered events in order.
NextIndexer ==
    \/ emitInvoiceMinted
    \/ emitInvoiceVerified
    \/ emitInvoiceFunded
    \/ emitInvoiceRepaid
    \/ emitInvoiceDefaulted
    \/ onInvoiceMinted
    \/ onInvoiceVerified
    \/ onInvoiceFunded
    \/ onInvoiceRepaid
    \/ onInvoiceDefaulted
    \/ Tick

SpecIndexer == Init /\ [][NextIndexer]_vars

\* Scenario C: both investors hold 500 and deposit it while no yield has
\* been posted; the owner posts a yield of 100 once both deposits are in;
\* an investor that redeems redeems all its units.
InitScenarioC == InitDeployed /\ usdc = funded(ScenarioDeposit)

NextScenarioC ==
    \/ \E i \in Investors : verifyUser("deployer", i, FarFuture, 0, 1)
    \/ revokeKYC("deployer", "bob")
    \/ \E c \in ParamChoices :
          updateVaultParameters("senior", "deployer", c.minDeposit, c.depositCap,
                                c.depositsEnabled, c.withdrawalsEnabled)
    \/ /\ epochCounter["senior"] = 0
       /\ \E i \in Investors : deposit("senior", i, ScenarioDeposit, i)
    \/ /\ totalSupply["senior"] = 2 * ScenarioDeposit
       /\ epochCounter["senior"] = 0
       /\ distributeYield("senior", "deployer", ScenarioYield)
    \/ \E i \in Investors :
          /\ balanceOf["senior"][i] > 0
          /\ redeem("senior", i, balanceOf["senior"][i], i, i)

SpecScenarioC == InitScenarioC /\ [][NextScenarioC]_vars

\* The senior vault holding invoices and an investor's deposit: the owner
\* adds and removes invoices, posts yield and records losses.
NextLoss ==
    \/ mintValid
    \/ \E id \in TokenIds : verifyInvoice("deployer", id)
    \/ \E id \in TokenIds : addInvoice("senior", "deployer", id)
    \/ \E id \in TokenIds : removeInvoice("senior", "deployer", id)
    \/ verifyUser("deployer", "alice", FarFuture, 0, 1)
    \/ updateVaultParameters("senior", "deployer", 1, 0, TRUE, TRUE)
    \/ \E assets \in 1..InvestorFunds : deposit("senior", "alice", assets, "alice")
    \/ distributeYield("senior", "deployer", MaxYield)
    \/ \E caller \in {"deployer", Outsider}, id \in CallIds, amount \in 0..MaxLoss :
          recordLoss("senior", caller, id, amount)

SpecLoss == Init /\ [][NextLoss]_vars

\* The senior vault and the registry through the whole lifecycle: invoices
\* are verified, added to and removed from the vault, marked funded, paid
\* and defaulted.
NextPortfolio ==
    \/ mintValid
    \/ \E id \in TokenIds : verifyInvoice("deployer", id)
    \/ \E id \in TokenIds : markAsFunded("operator", id)
    \/ \E id \in TokenIds, amount \in 1..MaxFaceValue : recordPayment("deployer", id, amount)
    \/ \E id \in TokenIds : markAsDefaulted("deployer", id)
    \/ \E id \in TokenIds : addInvoice("senior", "deployer", id)
    \/ \E id \in TokenIds : removeInvoice("senior", "deployer", id)
    \/ Tick

SpecPortfolio == Init /\ [][NextPortfolio]_vars

(* ------------------------------- claims -------------------------------- *)
Exists(id) == _ownerOf(id) # ZeroAddress

Terminal(status) == status \in {"PAID", "DEFAULTED"}

\* The order Pending < Verified < Funded < PartiallyPaid < {Paid, Defaulted}.
Rank(status) ==
    CASE status = "PENDING" -> 0
      [] status = "VERIFIED" -> 1
      [] status = "FUNDED" -> 2
      [] status = "PARTIAL_PAID" -> 3
      [] status = "PAID" -> 4
      [] status = "DEFAULTED" -> 4

AnyAmounts == 0..(MaxFaceValue + 1)

\* C1: state monotonicity. No step moves an instrument's status backward in
\* the order Pending < Verified < Funded < PartiallyPaid < {Paid, Defaulted};
\* an instrument that is Paid or Defaulted keeps its status and amountPaid in
\* every step, and every mutating registry call on it is rejected.
C1_StateMonotonicity ==
    /\ [][\A id \in TokenIds :
            /\ Rank(invoices[id].status) <= Rank(invoices'[id].status)
            /\ Terminal(invoices[id].status) =>
                  /\ invoices'[id].status = invoices[id].status
                  /\ invoices'[id].paidAmount = invoices[id].paidAmount]_vars
    /\ [](\A id \in TokenIds : Exists(id) /\ Terminal(invoices[id].status) =>
            \A caller \in Accounts \cup Vaults :
                /\ verifyInvoiceError(caller, id) # "none"
                /\ markAsFundedError(caller, id) # "none"
                /\ markAsDefaultedError(caller, id) # "none"
                /\ \A a \in AnyAmounts : recordPaymentError(caller, id, a) # "none")

\* One instrument went through every stage to Paid, another was partly paid
\* and then defaulted.
C1_Witness ==
    \E i, j \in TokenIds :
        /\ invoices[i].status = "PAID"
        /\ invoices[j].status = "DEFAULTED" /\ invoices[j].paidAmount > 0

\* C5: payment conservation. amountPaid never exceeds faceValue, and in every
\* reachable state a recordPayment with amount 0 or with amountPaid + amount >
\* faceValue is rejected (a rejected call reverts: nothing changes).
C5_PaymentConservation ==
    \A id \in TokenIds :
        /\ invoices[id].paidAmount <= invoices[id].faceValue
        /\ Exists(id) =>
              \A a \in AnyAmounts, caller \in Accounts :
                  (a = 0 \/ invoices[id].paidAmount + a > invoices[id].faceValue)
                      => recordPaymentError(caller, id, a) # "none"

\* A partly paid instrument: some amounts are accepted, larger ones are not.
C5_Witness ==
    \E id \in TokenIds :
        /\ invoices[id].status = "PARTIAL_PAID"
        /\ invoices[id].paidAmount > 0
        /\ recordPaymentError("deployer", id, 1) = "none"
        /\ recordPaymentError("deployer", id, invoices[id].faceValue) # "none"

\* C6: default exclusivity. In every reachable state markAsDefaulted is
\* rejected for an instrument with amountPaid = faceValue and for one with
\* now <= maturity, and no instrument is Defaulted with amountPaid = faceValue
\* or with a maturity that has not passed.
C6_DefaultExclusivity ==
    \A id \in TokenIds : Exists(id) =>
        /\ (invoices[id].paidAmount = invoices[id].faceValue
                \/ now <= invoices[id].maturityDate)
              => \A caller \in Accounts : markAsDefaultedError(caller, id) # "none"
        /\ invoices[id].status = "DEFAULTED" =>
              /\ invoices[id].paidAmount < invoices[id].faceValue
              /\ now > invoices[id].maturityDate

\* After maturity one instrument is fully paid and its default is refused,
\* another one has been defaulted.
C6_Witness ==
    \E i, j \in TokenIds :
        /\ invoices[i].status = "PAID" /\ now > invoices[i].maturityDate
        /\ markAsDefaultedError("deployer", i) = "Invoice already paid"
        /\ invoices[j].status = "DEFAULTED"

\* The edges of the lifecycle diagram.
LifecycleEdge(from, to) ==
    <<from, to>> \in {<<"PENDING", "VERIFIED">>, <<"VERIFIED", "FUNDED">>,
                      <<"FUNDED", "PAID">>, <<"FUNDED", "PARTIAL_PAID">>,
                      <<"PARTIAL_PAID", "PAID">>, <<"FUNDED", "DEFAULTED">>,
                      <<"PARTIAL_PAID", "DEFAULTED">>}

\* C7: every status change follows an edge of the lifecycle diagram; an
\* instrument becomes Defaulted only from Funded or PartiallyPaid, with
\* now > maturity and amountPaid < faceValue.
C7_LifecycleEdges ==
    [][\A id \in TokenIds :
          invoices'[id].status # invoices[id].status =>
              /\ LifecycleEdge(invoices[id].status, invoices'[id].status)
              /\ invoices'[id].status = "DEFAULTED" =>
                    /\ now > invoices[id].maturityDate
                    /\ invoices[id].paidAmount < invoices[id].faceValue]_vars

\* C8: evidence-hash uniqueness. No two instruments carry the same hash, and
\* in every reachable state a mintInvoice with the hash of an existing
\* instrument is rejected whatever that instrument's status and whatever
\* the other arguments.
C8_HashUniqueness ==
    /\ \A i, j \in TokenIds :
          Exists(i) /\ Exists(j) /\ i # j => invoices[i].invoiceHash # invoices[j].invoiceHash
    /\ \A id \in TokenIds : Exists(id) =>
          \A caller \in Accounts, fv \in FaceValues, m \in Times, d \in Debtors,
             r \in DiscountRates :
              mintInvoiceError(caller, fv, m, d, invoices[id].invoiceHash, r) # "none"

\* A first instrument has reached a terminal state, a second one was
\* submitted after it, and an otherwise acceptable resubmission of the
\* first one's hash is refused for the hash alone.
C8_Witness ==
    \E i, j \in TokenIds :
        /\ i < j /\ Exists(j)
        /\ Terminal(invoices[i].status)
        /\ mintInvoiceError("deployer", 1, MaxTime + 1, "debtor",
                            invoices[i].invoiceHash, MaxDiscountRate) = "Invoice already exists"

\* C9: every stored discountedValue equals
\* floor(faceValue * (10000 - discountRate) / 10000) and lies in
\* (0, faceValue].
C9_DiscountedValue ==
    \A id \in TokenIds : Exists(id) =>
        /\ invoices[id].discountedValue
              = (invoices[id].faceValue * (BasisPoints - invoices[id].discountRate))
                    \div BasisPoints
        /\ 0 < invoices[id].discountedValue
        /\ invoices[id].discountedValue <= invoices[id].faceValue

\* C2: a successful addInvoice marks the instrument Funded in the same step:
\* whenever an instrument enters a vault's allocation set, it is Funded in
\* the state that step leads to.
C2_AddMarksFunded ==
    [][\A v \in Vaults, id \in TokenIds :
          id \notin containsInvoice[v] /\ id \in containsInvoice'[v]
              => invoices'[id].status = "FUNDED"]_vars

\* C10: allocation is exclusive. Each instrument is an active allocation of
\* at most one vault.
C10_ExclusiveAllocation ==
    \A id \in TokenIds : Cardinality({v \in Vaults : id \in containsInvoice[v]}) <= 1

\* What the data source reports as paid for an instrument at this moment.
reportedPaid(id) == IF checkPaymentStatus(id).hasPaid THEN checkPaymentStatus(id).amount ELSE 0

\* C3: no double counting. With the oracle service as the only recorder of
\* payments, the registry's paidAmount never exceeds the amount the data
\* source reports as paid for that instrument.
C3_NoDoubleCounting ==
    \A id \in TokenIds : invoices[id].paidAmount <= reportedPaid(id)

\* C4: error isolation. A pass that has ended has gone through every
\* instrument that was in scope when it started: it stopped, if at all, no
\* earlier than at the last of them.
C4_ErrorIsolation ==
    /\ vpass.pc = "done" => vpass.tokenId >= vpass.total
    /\ ppass.pc = "done" => ppass.tokenId >= ppass.total

\* The asset value of `shares` units in a fund with `supply` units
\* outstanding and `assets` assets, rounded down.
valueOf(shares, supply, assets) == (shares * (assets + 1)) \div (supply + 1)

\* A step in which the senior fund took in assets that are not yield: an
\* accepted deposit or mint.
DepositStep ==
    /\ usdc'["senior"] > usdc["senior"]
    /\ cumulativeYield'["senior"] = cumulativeYield["senior"]

\* C11: deposit rounding never leaks value from existing holders. In every
\* accepted deposit (or mint) the units minted are at most the exact ratio
\* assets * units / totalAssets, their redeemable value right after the step
\* is at most the assets paid in, and the redeemable value of every holder's
\* earlier units is not lower after the step than before it.
C11_DepositRounding ==
    [][DepositStep =>
          LET paid == usdc'["senior"] - usdc["senior"]
              minted == totalSupply'["senior"] - totalSupply["senior"]
          IN /\ minted >= 0
             /\ minted * (usdc["senior"] + 1) <= paid * (totalSupply["senior"] + 1)
             /\ valueOf(minted, totalSupply'["senior"], usdc'["senior"]) <= paid
             /\ \A h \in Investors :
                   valueOf(balanceOf["senior"][h], totalSupply'["senior"], usdc'["senior"])
                     >= valueOf(balanceOf["senior"][h], totalSupply["senior"], usdc["senior"])]_vars

\* Both investors hold units and some deposit made after yield was posted
\* minted fewer units than the assets it paid in (only such a deposit lets
\* the assets exceed the units by more than the yield).
C11_Witness ==
    /\ \A h \in Investors : balanceOf["senior"][h] > 0
    /\ cumulativeYield["senior"] > 0
    /\ usdc["senior"] - totalSupply["senior"] > cumulativeYield["senior"]

\* A step in which assets left the senior fund: an accepted withdraw or
\* redeem.
RedeemStep == usdc'["senior"] < usdc["senior"]

priceOf(supply, assets) ==
    IF supply > 0 THEN (ShareUnit * (assets + 1)) \div (supply + 1) ELSE ShareUnit

\* C13: scenario C. Two deposits of 500 and 500 into the empty fund mint 500
\* and 500 units; the yield of 100 posted then raises the share price by
\* exactly 10%; once both investors have redeemed all their units the fund
\* holds zero assets and zero units and the two hold 1100 together.
C13_ScenarioC ==
    /\ []((usdc["alice"] = 0 /\ usdc["bob"] = 0 /\ cumulativeYield["senior"] = 0)
            => \A i \in Investors : balanceOf["senior"][i] = ScenarioDeposit)
    /\ [][cumulativeYield'["senior"] # cumulativeYield["senior"] =>
            10 * priceOf(totalSupply'["senior"], usdc'["senior"])
              = 11 * priceOf(totalSupply["senior"], usdc["senior"])]_vars
    /\ []((cumulativeYield["senior"] = ScenarioYield /\ totalSupply["senior"] = 0)
            => /\ usdc["senior"] = 0
               /\ usdc["alice"] + usdc["bob"] = 2 * ScenarioDeposit + ScenarioYield)

\* C14: the share price is non-decreasing. No step of deposit, mint,
\* withdraw, redeem or distributeYield (no loss is posted) lowers the value
\* getSharePrice returns, also not the redemption that takes the units
\* outstanding to zero after yield was posted.
C14_SharePriceMonotonic ==
    [][getSharePrice("senior")' >= getSharePrice("senior")]_vars

\* A step in which the senior fund's cumulative yield changed: an accepted
\* distributeYield.
YieldStep == cumulativeYield'["senior"] # cumulativeYield["senior"]

\* C15: an accepted distributeYield(amount) has amount > 0, increases
\* totalAssets and both cumulative-yield counters by exactly amount, leaves
\* the units outstanding and every unit balance unchanged, and makes
\* getSharePrice strictly greater than before the call.
C15_YieldEffect ==
    [][YieldStep =>
          LET amount == cumulativeYield'["senior"] - cumulativeYield["senior"]
          IN /\ amount > 0
             /\ usdc'["senior"] = usdc["senior"] + amount
             /\ totalYieldDistributed'["senior"] = totalYieldDistributed["senior"] + amount
             /\ UNCHANGED <<totalSupply, balanceOf>>
             /\ getSharePrice("senior")' > getSharePrice("senior")]_vars

\* A step in which the senior fund's cumulative loss changed: an accepted
\* recordLoss.
LossStep == totalDefaultLoss'["senior"] # totalDefaultLoss["senior"]

\* C16: an accepted recordLoss(instrumentId, amount) changes only the
\* cumulative-loss counter, by exactly an amount > 0 that the call accepts
\* for an instrument of the vault: totalAssets, the units outstanding, every
\* unit balance, getSharePrice, the allocation set, the tracked holdings
\* values and the registry are unchanged.
C16_LossFrame ==
    [][LossStep =>
          LET amount == totalDefaultLoss'["senior"] - totalDefaultLoss["senior"]
          IN /\ amount > 0
             /\ \E id \in TokenIds : recordLossError("senior", "deployer", id, amount) = "none"
             /\ UNCHANGED <<usdc, totalSupply, balanceOf, allowance>>
             /\ getSharePrice("senior")' = getSharePrice("senior")
             /\ UNCHANGED <<invoiceIds, containsInvoice, allocations, totalInvoiceValue,
                            totalInvoiceDiscountedValue>>
             /\ UNCHANGED <<cumulativeYield, totalYieldDistributed>>
             /\ UNCHANGED registryVars]_vars

\* A loss has been recorded against a fund that holds an invoice, deposits
\* and posted yield.
C16_Witness ==
    /\ totalDefaultLoss["senior"] > 0
    /\ containsInvoice["senior"] # {}
    /\ totalSupply["senior"] > 0
    /\ cumulativeYield["senior"] > 0

\* The compliance gate authorizes a principal at this moment.
Authorized(principal) ==
    kycRequired =>
        /\ kycData[principal].isVerified
        /\ kycData[principal].expiresAt > now
        /\ kycData[principal].riskScore <= maxAcceptableRiskScore

\* The preconditions of taking in `assets` for `beneficiary`.
DepositAllowed(assets, beneficiary) ==
    /\ depositsEnabled["senior"]
    /\ Authorized(beneficiary)
    /\ assets >= minDeposit["senior"]
    /\ depositCap["senior"] > 0 => usdc["senior"] + assets <= depositCap["senior"]

\* C17: deposit gating. In every reachable state a deposit or mint is
\* accepted only if deposits are enabled, the gate authorizes the
\* beneficiary, the assets are at least minDeposit and, when a cap is set,
\* totalAssets + assets <= cap; and a step mints units or takes in assets
\* (other than yield) only when these preconditions held for the assets it
\* took and for every principal whose balance grew.
C17_DepositGating ==
    /\ [](\A caller \in Investors, beneficiary \in Investors, n \in 0..(InvestorFunds + 1) :
            /\ depositError("senior", caller, n, beneficiary) = "none"
                  => DepositAllowed(n, beneficiary)
            /\ mintError("senior", caller, n, beneficiary) = "none"
                  => DepositAllowed(previewMint("senior", n), beneficiary))
    /\ [][(DepositStep \/ totalSupply'["senior"] > totalSupply["senior"]) =>
            /\ \A h \in Investors :
                  balanceOf'["senior"][h] > balanceOf["senior"][h]
                      => DepositAllowed(usdc'["senior"] - usdc["senior"], h)
            /\ depositsEnabled["senior"]
            /\ usdc'["senior"] - usdc["senior"] >= minDeposit["senior"]]_vars

\* An investor holds units from an earlier deposit and has lost its
\* authorization since: a deposit for it is refused for that alone, the
\* same deposit for the authorized investor goes through.
C17_Witness ==
    /\ balanceOf["senior"]["bob"] > 0
    /\ depositError("senior", "alice", 1, "bob") = "Receiver not KYC verified"
    /\ depositError("senior", "alice", 1, "alice") = "none"

\* The preconditions of burning `units` of `owner` for `beneficiary` on
\* behalf of `caller`.
WithdrawAllowed(caller, units, beneficiary, owner) ==
    /\ withdrawalsEnabled["senior"]
    /\ Authorized(beneficiary)
    /\ balanceOf["senior"][owner] >= units
    /\ caller = owner \/ allowance["senior"][owner][caller] >= units

\* C18: withdraw gating. In every reachable state a redeem or withdraw is
\* accepted only if withdrawals are enabled, the gate authorizes the
\* beneficiary, the owner holds at least the units burned and the caller is
\* the owner or approved by it for them; a step burns units or pays out
\* assets only when withdrawals were enabled and the principal paid was
\* authorized; and no unit balance and no allowance is ever negative.
C18_WithdrawGating ==
    /\ [](\A caller \in Investors, beneficiary \in Investors, owner \in Investors,
              n \in 0..(InvestorFunds + MaxYield * MaxEpochs + 1) :
            /\ redeemError("senior", caller, n, beneficiary, owner) = "none"
                  => WithdrawAllowed(caller, n, beneficiary, owner)
            /\ withdrawError("senior", caller, n, beneficiary, owner) = "none"
                  => WithdrawAllowed(caller, previewWithdraw("senior", n), beneficiary, owner))
    /\ [][(RedeemStep \/ totalSupply'["senior"] < totalSupply["senior"]) =>
            /\ withdrawalsEnabled["senior"]
            /\ \A h \in Investors : usdc'[h] > usdc[h] => Authorized(h)
            /\ \A h \in Investors :
                  balanceOf["senior"][h] - balanceOf'["senior"][h]
                      \in {0, totalSupply["senior"] - totalSupply'["senior"]}]_vars
    /\ [](\A h \in Investors :
            /\ balanceOf["senior"][h] >= 0
            /\ \A s \in Investors : allowance["senior"][h][s] >= 0)
    /\ [](totalSupply["senior"] = balanceOf["senior"]["alice"] + balanceOf["senior"]["bob"])

\* The approved investor has redeemed part of the other's units; what is
\* left of the allowance no longer covers a redemption it could otherwise
\* make, and the owner itself still can.
C18_Witness ==
    /\ allowance["senior"]["alice"]["bob"] = 1
    /\ balanceOf["senior"]["alice"] >= 2
    /\ redeemError("senior", "bob", 2, "bob", "alice") = "ERC20InsufficientAllowance"
    /\ redeemError("senior", "alice", 2, "alice", "alice") = "none"

\* The units the deposit rule of the fund specification mints for `assets`.
unitsFor(assets) ==
    IF totalSupply["senior"] = 0 THEN assets
    ELSE (assets * totalSupply["senior"]) \div usdc["senior"]

\* C19: an accepted deposit of `assets` mints exactly `assets` units when no
\* units are outstanding (also when the fund already holds assets) and
\* floor(assets * totalUnitsOutstanding / totalAssets) units otherwise, and
\* totalAssets grows by exactly `assets`.
C19_DepositUnits ==
    [][\A caller \in Investors, beneficiary \in Investors, assets \in 0..InvestorFunds :
          (/\ depositError("senior", caller, assets, beneficiary) = "none"
           /\ deposit("senior", caller, assets, beneficiary))
              => /\ balanceOf'["senior"][beneficiary]
                      = balanceOf["senior"][beneficiary] + unitsFor(assets)
                 /\ usdc'["senior"] = usdc["senior"] + assets]_vars

\* The instruments the senior fund holds an active allocation against.
ActiveIds == {id \in TokenIds : allocations["senior"][id].isActive}

PaymentStep(id) == invoices'[id].paidAmount # invoices[id].paidAmount

\* C21: after every successful recordPayment the instrument is Paid if its
\* amountPaid equals faceValue and PartiallyPaid otherwise, and in every
\* reachable state an existing instrument is Paid if and only if its
\* amountPaid equals its faceValue (so payments that sum to faceValue end
\* in Paid).
C21_PaymentStatus ==
    /\ [][\A id \in TokenIds : PaymentStep(id) =>
            invoices'[id].status =
                IF invoices'[id].paidAmount = invoices'[id].faceValue
                THEN "PAID" ELSE "PARTIAL_PAID"]_vars
    /\ [](\A id \in TokenIds : Exists(id) =>
            (invoices[id].status = "PAID"
                <=> invoices[id].paidAmount = invoices[id].faceValue))

\* One instrument was paid up to its face value, another one of face value
\* 2 holds a single partial payment.
C21_Witness ==
    \E i, j \in TokenIds :
        /\ invoices[i].status = "PAID" /\ invoices[i].paidAmount = invoices[i].faceValue
        /\ invoices[j].status = "PARTIAL_PAID"
        /\ invoices[j].paidAmount = 1 /\ invoices[j].faceValue = 2

\* The instruments that become Funded in a step.
NewlyFunded ==
    {id \in TokenIds : invoices[id].status # "FUNDED" /\ invoices'[id].status = "FUNDED"}

RECURSIVE SumFaceValue(_)
SumFaceValue(ids) ==
    IF ids = {} THEN 0
    ELSE LET id == CHOOSE x \in ids : TRUE
         IN invoices[id].faceValue + SumFaceValue(ids \ {id})

\* C22: markAsFunded goes through only from Verified and is rejected on an
\* instrument in any other state (a second call on the same instrument
\* included); in every step totalInvoicesFunded grows by the number of
\* instruments that become Funded in it and totalValueFunded by their face
\* values, so each funded instrument is counted exactly once.
C22_FundedOnce ==
    /\ [][/\ \A id \in NewlyFunded : invoices[id].status = "VERIFIED"
          /\ totalInvoicesFunded' = totalInvoicesFunded + Cardinality(NewlyFunded)
          /\ totalValueFunded' = totalValueFunded + SumFaceValue(NewlyFunded)]_vars
    /\ [](\A id \in TokenIds : Exists(id) /\ invoices[id].status # "VERIFIED" =>
            \A caller \in Accounts \cup Vaults : markAsFundedError(caller, id) # "none")

\* An instrument was funded once and has moved on; a second markAsFunded by
\* the VAULT_ROLE holder is refused for its state, and it is counted once.
C22_Witness ==
    \E id \in TokenIds :
        /\ invoices[id].status \in {"FUNDED", "PARTIAL_PAID"}
        /\ markAsFundedError("operator", id) = "Invoice not verified"
        /\ totalInvoicesFunded = 1
        /\ totalValueFunded = invoices[id].faceValue

NotFound == "Invoice does not exist"

\* The registry's running totals.
registryTotals == <<totalInvoicesFunded, totalValueFunded, totalValuePaid, totalDefaulted>>

\* C24: verifyInvoice, markAsFunded, recordPayment, markAsDefaulted and
\* getInvoice with an id that was never assigned are rejected, and for a
\* caller that holds the call's role the message is 'Invoice does not exist'
\* whatever the amount, the clock and the (empty) record under that id; the
\* record under an unassigned id changes only when the id is assigned, and
\* the totals change only together with an existing instrument.
C24_NotFound ==
    /\ [](\A id \in CallIds : ~Exists(id) =>
            /\ getInvoiceError(id) = NotFound
            /\ verifyInvoiceError("deployer", id) = NotFound
            /\ markAsFundedError("operator", id) = NotFound
            /\ markAsDefaultedError("deployer", id) = NotFound
            /\ \A a \in AnyAmounts : recordPaymentError("deployer", id, a) = NotFound
            /\ \A caller \in Accounts \cup Vaults :
                  /\ verifyInvoiceError(caller, id) # "none"
                  /\ markAsFundedError(caller, id) # "none"
                  /\ markAsDefaultedError(caller, id) # "none"
                  /\ \A a \in AnyAmounts : recordPaymentError(caller, id, a) # "none")
    /\ [][/\ \A id \in TokenIds :
                ~Exists(id) /\ invoices'[id] # invoices[id] => id = nextTokenId /\ Exists(id)'
          /\ registryTotals' # registryTotals =>
                \E id \in TokenIds : Exists(id) /\ invoices'[id] # invoices[id]]_vars

\* Instrument 1 exists, id 2 was never assigned, and the clock is past the
\* maturity an empty record holds: only the existence check stands between
\* markAsDefaulted(2) and a state change.
C24_Witness ==
    /\ Exists(1) /\ ~Exists(2)
    /\ now > invoices[2].maturityDate
    /\ markAsDefaultedError("deployer", 2) = NotFound
    /\ recordPaymentError("deployer", 2, 0) = NotFound

\* A step in which a verification pass begins.
VerificationPassStarts == vpass.pc \in {"idle", "done"} /\ vpass' # vpass

C23_DeadEnd ==
    \A id \in TokenIds :
        invoiceVerifications[id] = "invalid" => invoices[id].status = "PENDING"

\* A step in which the payment pass leaves instrument id, which it has been
\* handling: the loop goes on to the next id or an exception ends the pass.
PaymentPassLeaves(id) ==
    /\ ppass.tokenId = id
    /\ ppass.pc \in {"check", "record", "default"}
    /\ ppass'.tokenId # id \/ ppass'.pc = "done"

\* Instrument id is Funded, nothing was paid on it and its maturity has passed.
UnpaidAfterMaturity(id) ==
    /\ invoices[id].status = "FUNDED"
    /\ invoices[id].paidAmount = 0
    /\ now > invoices[id].maturityDate

\* C26: scenario B. An instrument that is Funded with amountPaid = 0 after its
\* maturity leaves that state only by becoming Defaulted, it is Defaulted
\* when the payment pass has handled it, and every recordPayment on a
\* Defaulted instrument is rejected.
C26_ScenarioB ==
    /\ [][\A id \in TokenIds : UnpaidAfterMaturity(id) =>
            /\ invoices'[id].status \in {"FUNDED", "DEFAULTED"}
            /\ PaymentPassLeaves(id) => invoices'[id].status = "DEFAULTED"]_vars
    /\ [](\A id \in TokenIds : invoices[id].status = "DEFAULTED" =>
            \A caller \in Accounts, a \in AnyAmounts :
                recordPaymentError(caller, id, a) # "none")

\* C27: the default check is independent of the payment check. Whenever the
\* payment pass leaves an instrument that is Funded or PartiallyPaid after
\* its maturity with amountPaid < faceValue, it has called markAsDefaulted
\* on it, whatever checkPaymentStatus and recordPayment did: the instrument
\* is Defaulted.
C27_DefaultIndependent ==
    [][\A id \in TokenIds :
          /\ PaymentPassLeaves(id)
          /\ invoices[id].status \in {"FUNDED", "PARTIAL_PAID"}
          /\ now > invoices[id].maturityDate
          /\ invoices[id].paidAmount < invoices[id].faceValue
          => invoices'[id].status = "DEFAULTED"]_vars

\* A step of the verification pass.
VerificationPassStep == vpass' # vpass

\* A step in which the verification pass leaves instrument id, which it
\* found Pending: the loop goes on to the next id or an exception ends the pass.
VerificationPassLeaves(id) ==
    /\ vpass.tokenId = id
    /\ vpass.pc \in {"verify", "record"}
    /\ vpass'.tokenId # id \/ vpass'.pc = "done"

\* What every step of the verification pass keeps to: the pass asks the
\* data source once per instrument (it never stays at the question and never
\* returns to an id), it changes no instrument but the one it handles, and
\* that one only from Pending to Verified after a true answer; after a false
\* answer it leaves the instrument Pending and unchanged.
VerificationPassFrame ==
    VerificationPassStep =>
        /\ vpass.pc = "verify" => vpass'.pc # "verify"
        /\ vpass.pc \notin {"idle", "done"} => vpass'.tokenId >= vpass.tokenId
        /\ \A id \in TokenIds :
              /\ invoices'[id] # invoices[id] =>
                    /\ id = vpass.tokenId /\ vpass.pc = "record" /\ vpass.isValid
                    /\ invoices[id].status = "PENDING"
                    /\ invoices'[id] = [invoices[id] EXCEPT !.status = "VERIFIED"]
              /\ VerificationPassLeaves(id) /\ vpass.pc = "verify" =>
                    /\ invoiceVerifications'[id] = "invalid"
                    /\ invoices'[id] = invoices[id]
                    /\ invoices[id].status = "PENDING"

\* The pass leaves instrument id after a true answer.
LeavesAfterTrueAnswer(id) == VerificationPassLeaves(id) /\ vpass.pc = "record"

\* C28 as stated: for each instrument that is Pending when visited the pass
\* calls verify exactly once; on a true answer it calls verifyInvoice and the
\* instrument is Verified when the pass has handled it; on a false answer it
\* changes nothing and the instrument stays Pending; instruments in other
\* states are never touched.
C28_VerificationPass_AsStated ==
    [][/\ VerificationPassFrame
       /\ \A id \in TokenIds :
             LeavesAfterTrueAnswer(id) => invoices'[id].status = "VERIFIED"]_vars

\* C28, amended: as above, but on a true answer the instrument is Verified
\* when the pass has handled it only if now < maturity at the verifyInvoice
\* call; otherwise that call is rejected and changes nothing.
C28_VerificationPass ==
    [][/\ VerificationPassFrame
       /\ \A id \in TokenIds :
             LeavesAfterTrueAnswer(id) =>
                 IF now < invoices[id].maturityDate
                 THEN invoices'[id].status = "VERIFIED"
                 ELSE invoices'[id] = invoices[id]]_vars

\* The pass has verified instrument 1 and its verifyInvoice call for
\* instrument 2, answered true by the data source, was rejected for maturity.
C28_Witness ==
    /\ invoices[1].status = "VERIFIED"
    /\ vpass.tokenId = 2 /\ vpass.pc = "done" /\ vpass.error = "Invoice already matured"
    /\ invoiceVerifications[2] = "valid"
    /\ invoices[2].status = "PENDING"

\* C29: liveness of verification. With the verification task scheduled
\* fairly, every instrument that is Pending and whose maturity lies beyond
\* the clock's horizon (so that now < maturity throughout) is eventually
\* Verified, unless the data source has answered verify = false for it,
\* whatever the state of the other instruments.
C29_VerificationLiveness ==
    \A id \in TokenIds :
        (Exists(id) /\ invoices[id].status = "PENDING"
                    /\ invoices[id].maturityDate > MaxTime)
            ~> (invoices[id].status = "VERIFIED" \/ invoiceVerifications[id] = "invalid")

\* C30: stopping the monitor. While the service is stopped no verification
\* pass and no payment pass begins (a pass in flight may go on).
C30_StopHalts ==
    [][~isRunning =>
          /\ vpass.pc \in {"idle", "done"} => vpass' = vpass
          /\ ppass.pc \in {"idle", "done"} => ppass' = ppass]_vars

\* C31: timeouts. A pass never waits on the data source indefinitely: a pass
\* that is awaiting verifyInvoice or checkPaymentStatus gets past that call
\* even if the call never returns, and every pass that has begun terminates.
C31_SourceTimeout ==
    /\ (vpass.pc = "verify") ~> (vpass.pc # "verify")
    /\ (ppass.pc = "check") ~> (ppass.pc # "check")
    /\ (vpass.pc \notin {"idle", "done"}) ~> (vpass.pc = "done")
    /\ (ppass.pc \notin {"idle", "done"}) ~> (ppass.pc = "done")

\* A step of the payment pass.
PaymentPassStep == ppass' # ppass

\* C32: stale snapshots are harmless to the registry. Whenever a pass issues
\* a mutation that the instrument's current state no longer allows
\* (verifyInvoice on an instrument that is not Pending or has matured,
\* recordPayment on one that is not Funded or PartiallyPaid or beyond its
\* face value, markAsDefaulted on one that is Paid or Defaulted or has not
\* matured), the registry rejects it and nothing changes; a Paid instrument
\* is never changed again, in particular not to Defaulted; and an
\* instrument becomes Verified only from Pending and never returns to
\* Pending, so it is Verified at most once.
C32_StaleSnapshots ==
    [][/\ \A id \in TokenIds :
             /\ invoices[id].status = "PAID" => invoices'[id] = invoices[id]
             /\ invoices'[id].status = "VERIFIED" /\ invoices[id].status # "VERIFIED"
                    => invoices[id].status = "PENDING"
             /\ Exists(id) /\ invoices[id].status # "PENDING"
                    => invoices'[id].status # "PENDING"
       /\ VerificationPassStep /\ vpass.pc = "record"
             /\ (\/ invoices[vpass.tokenId].status # "PENDING"
                 \/ now >= invoices[vpass.tokenId].maturityDate)
             => UNCHANGED registryVars
       /\ PaymentPassStep /\ ppass.pc = "record"
             /\ (\/ invoices[ppass.tokenId].status \notin {"FUNDED", "PARTIAL_PAID"}
                 \/ invoices[ppass.tokenId].paidAmount + ppass.paymentInfo.amount
                        > invoices[ppass.tokenId].faceValue)
             => UNCHANGED registryVars
       /\ PaymentPassStep /\ ppass.pc = "default"
             /\ (\/ invoices[ppass.tokenId].status \in {"PAID", "DEFAULTED"}
                 \/ now <= invoices[ppass.tokenId].maturityDate)
             => UNCHANGED registryVars]_vars

\* The payment pass read instrument 1 as Funded with nothing paid, recorded
\* the full payment itself, and its default check, made from that snapshot
\* after the maturity, was rejected: the instrument is Paid.
C32_Witness ==
    /\ ppass.tokenId = 1 /\ ppass.pc = "done" /\ ppass.error = "Invoice already paid"
    /\ ppass.invoice.status = "FUNDED" /\ ppass.invoice.paidAmount = 0
    /\ invoices[1].status = "PAID"
    /\ now > invoices[1].maturityDate

\* The instruments vault v holds an active allocation against.
ActiveAllocations(v) == {id \in TokenIds : allocations[v][id].isActive}

\* The face values written into vault v's allocation records, summed over ids.
RECURSIVE SumAllocated(_, _)
SumAllocated(v, ids) ==
    IF ids = {} THEN 0
    ELSE LET id == CHOOSE x \in ids : TRUE
         IN allocations[v][id].faceValue + SumAllocated(v, ids \ {id})

RECURSIVE SumDiscountedValue(_)
SumDiscountedValue(ids) ==
    IF ids = {} THEN 0
    ELSE LET id == CHOOSE x \in ids : TRUE
         IN invoices[id].discountedValue + SumDiscountedValue(ids \ {id})

\* A step in which removeInvoice went through on instrument id of vault v.
RemoveStep(v, id) == id \in containsInvoice[v] /\ id \notin containsInvoice'[v]

\* C33: holdings accounting. In every reachable state totalInvoiceValue is
\* the sum of the face values of the vault's active allocations and
\* totalInvoiceDiscountedValue the sum of their discounted values, and
\* removeInvoice on an instrument that is not currently allocated is
\* rejected; a removeInvoice that goes through deactivates the allocation
\* and takes the instrument's face value and discounted value off the totals.
C33_HoldingsAccounting ==
    /\ [](\A v \in Vaults :
            /\ containsInvoice[v] = ActiveAllocations(v)
            /\ totalInvoiceValue[v] = SumAllocated(v, ActiveAllocations(v))
            /\ totalInvoiceValue[v] = SumFaceValue(ActiveAllocations(v))
            /\ totalInvoiceDiscountedValue[v] = SumDiscountedValue(ActiveAllocations(v))
            /\ \A caller \in Accounts, id \in CallIds :
                  id \notin ActiveAllocations(v) => removeInvoiceError(v, caller, id) # "none")
    /\ [][\A v \in Vaults, id \in TokenIds :
            RemoveStep(v, id) =>
                /\ allocations[v][id].isActive /\ ~allocations'[v][id].isActive
                /\ totalInvoiceValue'[v] = totalInvoiceValue[v] - invoices[id].faceValue
                /\ totalInvoiceDiscountedValue'[v]
                       = totalInvoiceDiscountedValue[v] - invoices[id].discountedValue]_vars

\* The senior vault holds two allocation records, one still active and one
\* removed, and tracks the face value of the active one.
C33_Witness ==
    /\ Len(invoiceIds["senior"]) = 2
    /\ \E i, j \in TokenIds :
          /\ allocations["senior"][i].isActive
          /\ ~allocations["senior"][j].isActive /\ allocations["senior"][j].invoiceId = j
          /\ totalInvoiceValue["senior"] = invoices[i].faceValue

\* What the loop of getExpectedAPY has accumulated when it ends.
apyTotals(v) ==
    apyLoop(v, 1, [reverted |-> FALSE, totalExpectedYield |-> 0,
                   totalDuration |-> 0, activeInvoices |-> 0])

\* C35: each instrument appears at most once in a vault's invoiceIds, so
\* that getActiveInvoiceIds lists every active allocation exactly once and
\* getExpectedAPY counts every active allocation whose instrument is not
\* Paid or Defaulted exactly once.
C35_UniqueIds ==
    \A v \in Vaults :
        /\ \A i, j \in 1..Len(invoiceIds[v]) :
              i # j => invoiceIds[v][i] # invoiceIds[v][j]
        /\ Len(getActiveInvoiceIds(v)) = Cardinality(ActiveAllocations(v))
        /\ apyTotals(v).activeInvoices =
              Cardinality({id \in ActiveAllocations(v) : ~Terminal(invoices[id].status)})

\* The active allocations of vault v whose instruments are not yet Paid or
\* Defaulted.
LiveAllocations(v) == {id \in ActiveAllocations(v) : ~Terminal(invoices[id].status)}

RECURSIVE SumDuration(_)
SumDuration(ids) ==
    IF ids = {} THEN 0
    ELSE LET id == CHOOSE x \in ids : TRUE
         IN (invoices[id].maturityDate - invoices[id].issuedAt) + SumDuration(ids \ {id})

\* floor(totalYield * 365 days * 10000 / (totalFaceValue * avgDuration)),
\* every sum taken over ids.
expectedYieldOver(ids) ==
    LET totalYield == SumFaceValue(ids) - SumDiscountedValue(ids)
        totalFaceValue == SumFaceValue(ids)
        avgDuration == SumDuration(ids) \div Cardinality(ids)
    IN (totalYield * YearDuration * BasisPoints) \div (totalFaceValue * avgDuration)

\* No id occurs twice in vault v's invoiceIds.
NoDuplicateIds(v) ==
    \A i, j \in 1..Len(invoiceIds[v]) : i # j => invoiceIds[v][i] # invoiceIds[v][j]

\* C34: getExpectedAPY returns floor(totalYield * 365 days * 10000 /
\* (totalFaceValue * avgDuration)) with the three quantities taken over the
\* active allocations whose instruments are not yet Paid or Defaulted
\* (stated for a vault that holds at least one such allocation and whose
\* invoiceIds lists no instrument twice).
C34_ExpectedYield ==
    LiveAllocations("senior") # {} /\ NoDuplicateIds("senior")
        => /\ ~getExpectedAPY("senior").reverted
           /\ getExpectedAPY("senior").apy = expectedYieldOver(LiveAllocations("senior"))

RECURSIVE SumPaidAmount(_)
SumPaidAmount(ids) ==
    IF ids = {} THEN 0
    ELSE LET id == CHOOSE x \in ids : TRUE
         IN invoices[id].paidAmount + SumPaidAmount(ids \ {id})

\* The instruments that are Defaulted.
DefaultedIds == {id \in TokenIds : invoices[id].status = "DEFAULTED"}

\* C36: registry totals. In every reachable state totalValuePaid is the sum
\* of paidAmount over all instruments, totalDefaulted the sum of
\* faceValue - paidAmount over the Defaulted ones, and totalValuePaid +
\* totalDefaulted <= totalValueFunded; totalValueFunded grows in every step
\* by the face values of the instruments that become Funded in it, so that
\* it is the sum of faceValue over the instruments that ever became Funded.
C36_RegistryTotals ==
    /\ [](/\ totalValuePaid = SumPaidAmount(TokenIds)
          /\ totalDefaulted = SumFaceValue(DefaultedIds) - SumPaidAmount(DefaultedIds)
          /\ totalValuePaid + totalDefaulted <= totalValueFunded)
    /\ [][totalValueFunded' = totalValueFunded + SumFaceValue(NewlyFunded)]_vars

\* The compliance gate has never authorized the principal: verifyUser was
\* never carried out for it (it always writes a tier of at least 1).
NeverAuthorized(principal) == kycData[principal] = EmptyKYCData

\* C37: compliance of holdings. With the KYC requirement on, a principal the
\* gate has never authorized holds no shares of the vault, whatever deposit,
\* mint, withdraw, redeem, transfer and transferFrom calls were made.
C37_HoldingsCompliance ==
    \A principal \in Investors :
        kycRequired /\ NeverAuthorized(principal) => balanceOf["senior"][principal] = 0

\* One of the three things that take a user's verification away holds: the
\* flag is cleared (revokeKYC, or never set), the expiry has passed, or the
\* risk score lies above the threshold.
Excluded(user) ==
    \/ ~kycData[user].isVerified
    \/ kycData[user].expiresAt <= now
    \/ kycData[user].riskScore > maxAcceptableRiskScore

\* Every deposit, mint, redeem and withdraw naming user as beneficiary is
\* rejected, whoever calls it, for whatever amount and from whichever owner.
RejectedAsBeneficiary(user) ==
    \A caller \in Investors, owner \in Investors, n \in 0..(InvestorFunds + 1) :
        /\ depositError("senior", caller, n, user) # "none"
        /\ mintError("senior", caller, n, user) # "none"
        /\ redeemError("senior", caller, n, user, owner) # "none"
        /\ withdrawError("senior", caller, n, user, owner) # "none"

\* What holds of revocation whichever way it ends: while the requirement
\* is on, an excluded user is not verified and is rejected as beneficiary.
RevocationGate ==
    \A user \in Investors :
        kycRequired /\ Excluded(user) => ~isVerified(user) /\ RejectedAsBeneficiary(user)

\* The step that excludes a user takes effect in the state it leads to and
\* leaves the user's shares alone, as does every step of the gate and the clock.
RevocationStep ==
    /\ \A user \in Investors :
          kycRequired' /\ ~Excluded(user) /\ Excluded(user)'
              => /\ ~isVerified(user)'
                 /\ balanceOf'["senior"][user] = balanceOf["senior"][user]
    /\ kycVars' # kycVars \/ now' # now => UNCHANGED <<balanceOf, totalSupply>>

\* C38 as stated: revocation takes effect immediately. While kycRequired is
\* true, after revokeKYC(user), once the expiry has passed or once the
\* threshold is below the user's score, isVerified(user) is false and every
\* deposit, mint, withdraw or redeem naming the user as beneficiary is
\* rejected, until a verifyUser or updateKYC for that user makes it verified
\* again; the shares it holds are left untouched.
C38_Revocation_AsStated ==
    /\ []RevocationGate
    /\ [][/\ RevocationStep
          /\ \A user \in Investors :
                kycRequired /\ kycRequired' /\ Excluded(user) /\ ~Excluded(user)'
                    => kycData'[user] # kycData[user]]_vars

\* C38, amended: as above, but the exclusion also ends when the admin
\* raises the risk threshold to the user's score or above.
C38_Revocation ==
    /\ []RevocationGate
    /\ [][/\ RevocationStep
          /\ \A user \in Investors :
                kycRequired /\ kycRequired' /\ Excluded(user) /\ ~Excluded(user)'
                    => \/ kycData'[user] # kycData[user]
                       \/ /\ maxAcceptableRiskScore' > maxAcceptableRiskScore
                          /\ kycData[user].riskScore <= maxAcceptableRiskScore']_vars

\* Bob holds shares and his flag is set, but the threshold now lies below
\* his risk score: a deposit for him and his own redemption are refused for
\* the KYC check alone.
C38_Witness ==
    /\ kycRequired
    /\ balanceOf["senior"]["bob"] > 0
    /\ kycData["bob"].isVerified /\ kycData["bob"].expiresAt > now
    /\ kycData["bob"].riskScore > maxAcceptableRiskScore
    /\ depositError("senior", "alice", 1, "bob") = "Receiver not KYC verified"
    /\ redeemError("senior", "bob", 1, "bob", "bob") = "Receiver not KYC verified"
    /\ redeemError("senior", "bob", 1, "alice", "bob") = "none"

\* The listeners have handled every event emitted for instrument id.
AllHandled(id) == \A i \in 1..Len(pendingEvents) : pendingEvents[i].tokenId # id

\* C39: the indexer mirrors the registry. Once the listeners have handled,
\* in order, every event emitted for an instrument, the status stored for
\* it in the index is its status in the registry.
C39_IndexMirror ==
    \A id \in TokenIds : Exists(id) /\ AllHandled(id) => index[id] = invoices[id].status

====
